---------------------------- MODULE Spec2Model ----------------------------
(* A model of the vpp-api generator crate (vpp-api-gen): the identifier    *)
(* and type mappers of api_gen/parser_helper.rs, the import-count sort of   *)
(* api_gen/util.rs, the tree loader parse_api_tree and the driver           *)
(* parse_type_tree of lib.rs; and of the context counter of the transport   *)
(* clients (vpp-api-transport).                                             *)
(*                                                                          *)
(* Text is modelled as a sequence of symbols.  An identifier is a sequence  *)
(* of one-character strings; a literal chunk of a format! template is one   *)
(* symbol.  Indices of the sort are 0-based as in the source.               *)
EXTENDS Integers, Sequences, FiniteSets, TLC

VARIABLES
    call,       \* mapper: the pending call [fn, ...arguments]
    ret,        \* mapper: <<>> before the call returns, <<value>> after
    entry_fn,   \* generator: the public function that was called
    opts,       \* generator: the Opts flags the run reads
    tree,       \* generator: the input (a directory tree, or one file's data)
    pc,         \* generator: the position of the run
    failure,    \* generator: <<>>, or <<[at, what, path]>> once the run aborted
    stack,      \* parse_api_tree: the active calls, [dir, idx] each
    api_files,  \* the LinkedHashMap of loaded files, in iteration order
    diags,      \* stderr: the "Error loading" / "Error reading" lines
    out,        \* stdout: the lines printed by parse_type_tree
    sort_in,    \* the vector handed to merge_sort by the last call
    sort_out,   \* the vector the last merge_sort call returned
    emitted,    \* the emitter calls made, [pass, name] each
    pkg,        \* create_package: [dirs created, scaffold files written]
    client,     \* transport: the Client, [kind, client_index, context_id, bursts]
    sent,       \* transport: the messages written by send, as stamped
    replies,    \* transport: the contexts of the replies received
    msg,        \* message: the message value the trait methods are called on
    msg_log,    \* message: the calls made on msg, [fn, arg, before, after, name]
    connect_reply, \* afunix: <<>>, or <<the sockclnt_create reply of connect>>
    inbox,      \* connection: the frames VPP wrote that no receive read yet
    calls,      \* connection: the public calls made on the client, in order
    vpp,        \* connection: VPP, [requests answered, events sent, callback]
    lock,       \* non_blocking: the task holding the receiver mutex, or 0
    tasks       \* non_blocking: the position of each task in send_rcv

mapVars == <<call, ret>>
genVars == <<entry_fn, opts, tree, pc, failure, stack, api_files, diags, out,
             sort_in, sort_out, emitted, pkg>>
clientVars == <<client, sent, replies>>
connVars == <<msg, msg_log, connect_reply, inbox, calls, vpp, lock, tasks>>
vars == <<call, ret, entry_fn, opts, tree, pc, failure, stack, api_files, diags,
          out, sort_in, sort_out, emitted, pkg, client, sent, replies,
          msg, msg_log, connect_reply, inbox, calls, vpp, lock, tasks>>

-----------------------------------------------------------------------------
(* Bounds of the model.                                                     *)

\* the longest identifier handed to get_type / get_ident, in tokens
MaxTok == 4
\* the longest ctype of a field handed to get_rust_field_type, in tokens
MaxCTok == 3
\* the most entries (files and directories) of a tree given to parse_type_tree
MaxGenEntries == 3
\* the most entries of a tree given to parse_api_tree called on its own
MaxTreeEntries == 3
\* the longest vector handed to merge_sort called on its own
MaxSortLen == 4
\* the largest number of imports of a file handed to merge_sort on its own
MaxImports == 2
\* the most entries of a tree with symbolic links given to parse_api_tree
MaxLinkEntries == 3
\* the most symbolic links the system follows when it resolves one path
MaxLinks == 2
\* the most messages a client sends one by one
MaxSends == 4
\* the most runs of sends a client makes between them
MaxBursts == 1
\* the most trait-method calls made on one message
MaxMsgCalls == 3
\* the most public calls made on one connected client
MaxCalls == 3
\* the most messages VPP sends that no request asked for
MaxEvents == 1
\* the tasks that call send_rcv of shmem::non_blocking
MaxTasks == 2
\* the most send_rcv calls one task makes
MaxRounds == 2
\* the most frames the writer of the frame model writes
MaxFrames == 3
\* the most entries of a message table in the replies to a connect
MaxTable == 2
\* the most messages a transport holds for a request/reply helper to read
MaxIncoming == 3
\* the most messages the VAC layer delivers to vac_write_callback
MaxDeliveries == 17

-----------------------------------------------------------------------------
(* Text helpers: the str methods the source calls.                          *)

VlApi == <<"v", "l", "_", "a", "p", "i", "_">>
SufT == <<"_", "t">>
Underscore == <<"_">>
StrString == <<"s", "t", "r", "i", "n", "g">>
StrType == <<"t", "y", "p", "e">>
StrMatch == <<"m", "a", "t", "c", "h">>

LowerLetters == <<"a", "b", "c", "d", "e", "f", "g", "h", "i", "j", "k", "l", "m",
                  "n", "o", "p", "q", "r", "s", "t", "u", "v", "w", "x", "y", "z">>
UpperLetters == <<"A", "B", "C", "D", "E", "F", "G", "H", "I", "J", "K", "L", "M",
                  "N", "O", "P", "Q", "R", "S", "T", "U", "V", "W", "X", "Y", "Z">>

\* char::to_uppercase(), first character of the result
ToUpper(c) ==
    IF \E i \in 1..Len(LowerLetters) : LowerLetters[i] = c
    THEN UpperLetters[CHOOSE i \in 1..Len(LowerLetters) : LowerLetters[i] = c]
    ELSE c

\* char::to_lowercase()
ToLower(c) ==
    IF \E i \in 1..Len(UpperLetters) : UpperLetters[i] = c
    THEN LowerLetters[CHOOSE i \in 1..Len(UpperLetters) : UpperLetters[i] = c]
    ELSE c

Drop(s, n) == SubSeq(s, n + 1, Len(s))
Take(s, n) == SubSeq(s, 1, n)

\* str::starts_with / str::ends_with
StartsWith(s, p) == Len(s) >= Len(p) /\ Take(s, Len(p)) = p
EndsWith(s, p) == Len(s) >= Len(p) /\ Drop(s, Len(s) - Len(p)) = p

\* str::trim_start_matches: removes the prefix repeatedly
RECURSIVE TrimStartMatches(_, _)
TrimStartMatches(s, p) ==
    IF p # <<>> /\ StartsWith(s, p)
    THEN TrimStartMatches(Drop(s, Len(p)), p)
    ELSE s

\* str::trim_end_matches: removes the suffix repeatedly
RECURSIVE TrimEndMatches(_, _)
TrimEndMatches(s, p) ==
    IF p # <<>> /\ EndsWith(s, p)
    THEN TrimEndMatches(Take(s, Len(s) - Len(p)), p)
    ELSE s

\* str::split("_"): the segments between underscores, empty ones included
RECURSIVE SplitFrom(_, _, _)
SplitFrom(s, i, cur) ==
    IF i > Len(s) THEN <<cur>>
    ELSE IF s[i] = "_" THEN <<cur>> \o SplitFrom(s, i + 1, <<>>)
    ELSE SplitFrom(s, i + 1, Append(cur, s[i]))

SplitUnderscore(s) == SplitFrom(s, 1, <<>>)

RECURSIVE Concat(_)
Concat(ss) == IF ss = <<>> THEN <<>> ELSE Head(ss) \o Concat(Tail(ss))

-----------------------------------------------------------------------------
(* parser_helper.rs: the identifier and type mappers.                       *)

\* one segment of camelize_ident: character 0 upper-cased, the rest kept
CamelSegment(x) == [i \in 1..Len(x) |-> IF i = 1 THEN ToUpper(x[i]) ELSE x[i]]

camelize_ident(ident) ==
    LET collection == SplitUnderscore(ident)
    IN  Concat([n \in 1..Len(collection) |-> CamelSegment(collection[n])])

get_type(apitype) ==
    IF StartsWith(apitype, VlApi)
    THEN camelize_ident(TrimEndMatches(TrimStartMatches(apitype, VlApi), SufT))
    ELSE IF apitype = StrString
    THEN <<"S", "t", "r", "i", "n", "g">>
    ELSE apitype

\* variant of get_ident: the test for "match" dropped
get_ident_NoMatch(api_ident) ==
    IF api_ident = StrType THEN <<"t", "y", "p">>
    ELSE TrimStartMatches(api_ident, Underscore)

get_ident(api_ident) ==
    IF api_ident = StrType THEN <<"t", "y", "p">>
    ELSE IF api_ident = StrMatch THEN <<"m", "a", "c", "h">>
    ELSE TrimStartMatches(api_ident, Underscore)

IsUpperChar(c) == \E i \in 1..Len(UpperLetters) : UpperLetters[i] = c
IsLowerChar(c) == \E i \in 1..Len(LowerLetters) : LowerLetters[i] = c

\* convert_case: the word boundaries inside one underscore-delimited piece,
\* before character i (1-based, i > 1): a lower-case letter followed by an
\* upper-case one ("aB" -> "a", "B"), and an upper-case letter followed by
\* an upper-case and then a lower-case one ("ABc" -> "A", "Bc")
CaseBoundary(w, i) ==
    \/ IsLowerChar(w[i - 1]) /\ IsUpperChar(w[i])
    \/ /\ IsUpperChar(w[i - 1])
       /\ IsUpperChar(w[i])
       /\ i < Len(w)
       /\ IsLowerChar(w[i + 1])

RECURSIVE SplitCase(_, _, _)
SplitCase(w, i, cur) ==
    IF i > Len(w) THEN <<cur>>
    ELSE IF cur # <<>> /\ CaseBoundary(w, i)
    THEN <<cur>> \o SplitCase(w, i + 1, <<w[i]>>)
    ELSE SplitCase(w, i + 1, Append(cur, w[i]))

\* convert_case's to_case(Case::UpperCamel): the words between underscores
\* (empty ones dropped) and between case boundaries, each with its first
\* character upper-cased and the rest lower-cased.  The other delimiters of
\* the library (hyphen, space) and its digit boundaries do not occur in the
\* identifiers of the model, which have letters and underscores only.
UpperCamelWord(w) == [i \in 1..Len(w) |-> IF i = 1 THEN ToUpper(w[i]) ELSE ToLower(w[i])]

ToCaseUpperCamel(s) ==
    LET pieces == SelectSeq(SplitUnderscore(s), LAMBDA w : w # <<>>)
        words == Concat([n \in 1..Len(pieces) |-> SplitCase(pieces[n], 1, <<>>)])
    IN  Concat([n \in 1..Len(words) |-> UpperCamelWord(words[n])])

\* parser_helper.rs 148-151
camelize(ident) == ToCaseUpperCamel(ident)

\* the candidate Rust type of get_rust_type_from_ctype, before the enum lookup
RustBaseType(ctype) ==
    IF StartsWith(ctype, VlApi)
    THEN ToCaseUpperCamel(TrimEndMatches(TrimStartMatches(ctype, VlApi), SufT))
    ELSE ctype

\* variant of get_rust_type_from_ctype: the registry looked up by ctype
get_rust_type_from_ctype_ByCtype(enum_containers, ctype) ==
    LET rtype == RustBaseType(ctype)
    IN  IF ctype \in DOMAIN enum_containers
        THEN <<"SizedEnum<">> \o rtype \o <<", ">> \o enum_containers[ctype] \o <<">">>
        ELSE rtype

get_rust_type_from_ctype(enum_containers, ctype) ==
    LET rtype == RustBaseType(ctype)
    IN  IF rtype \in DOMAIN enum_containers
        THEN <<"SizedEnum<">> \o rtype \o <<", ">> \o enum_containers[rtype] \o <<">">>
        ELSE rtype

\* variant of get_rust_field_full_rtype: the string test made on rtype
get_rust_field_full_rtype_ByRtype(enum_containers, fld) ==
    LET rtype == get_rust_type_from_ctype(enum_containers, fld.ctype)
    IN  IF fld.maybe_size # <<>>
        THEN LET size == fld.maybe_size[1]
             IN  IF size.kind = "Variable"
                 THEN IF rtype = StrString
                      THEN <<"VariableSizeString">>
                      ELSE <<"VariableSizeArray<">> \o rtype \o <<">">>
                 ELSE IF rtype = StrString
                      THEN <<"FixedSizeString<typenum::U">> \o size.arg \o <<">">>
                      ELSE <<"FixedSizeArray<">> \o rtype \o <<", typenum::U">>
                               \o size.arg \o <<">">>
        ELSE rtype

\* variant of get_rust_field_full_rtype: an array wraps the candidate type
\* taken before the enum lookup
get_rust_field_full_rtype_BareArrays(enum_containers, fld) ==
    LET rtype == get_rust_type_from_ctype(enum_containers, fld.ctype)
        bare == RustBaseType(fld.ctype)
    IN  IF fld.maybe_size # <<>>
        THEN LET size == fld.maybe_size[1]
             IN  IF size.kind = "Variable"
                 THEN IF fld.ctype = StrString
                      THEN <<"VariableSizeString">>
                      ELSE <<"VariableSizeArray<">> \o bare \o <<">">>
                 ELSE IF fld.ctype = StrString
                      THEN <<"FixedSizeString<typenum::U">> \o size.arg \o <<">">>
                      ELSE <<"FixedSizeArray<">> \o bare \o <<", typenum::U">>
                               \o size.arg \o <<">">>
        ELSE rtype

\* Option<VppJsApiFieldSize>: <<>> is None, <<[kind, arg]>> is Some(size) with
\* Variable(None) = [kind |-> "Variable", arg |-> <<>>],
\* Variable(Some(m)) = [kind |-> "Variable", arg |-> <<m>>] and
\* Fixed(n) = [kind |-> "Fixed", arg |-> <<n>>]
get_rust_field_full_rtype(enum_containers, fld) ==
    LET rtype == get_rust_type_from_ctype(enum_containers, fld.ctype)
    IN  IF fld.maybe_size # <<>>
        THEN LET size == fld.maybe_size[1]
             IN  IF size.kind = "Variable"
                 THEN IF fld.ctype = StrString
                      THEN <<"VariableSizeString">>
                      ELSE <<"VariableSizeArray<">> \o rtype \o <<">">>
                 ELSE IF fld.ctype = StrString
                      THEN <<"FixedSizeString<typenum::U">> \o size.arg \o <<">">>
                      ELSE <<"FixedSizeArray<">> \o rtype \o <<", typenum::U">>
                               \o size.arg \o <<">">>
        ELSE rtype

\* variant of get_rust_field_type: a field with options loses its container
get_rust_field_type_OptionsDropSize(enum_containers, fld, is_last) ==
    IF fld.maybe_options = <<>>
    THEN [type_expr |-> get_rust_field_full_rtype(enum_containers, fld), comment |-> <<>>]
    ELSE [type_expr |-> get_rust_type_from_ctype(enum_containers, fld.ctype),
          comment |-> <<[fld |-> fld, is_last |-> is_last]>>]

\* The returned text is the type expression, followed for a field with
\* options by the comment " /* {:?} {} */" of the field and is_last: the
\* comment is kept apart as <<[fld, is_last]>>, and is <<>> when there is none.
get_rust_field_type(enum_containers, fld, is_last) ==
    LET full_rtype == get_rust_field_full_rtype(enum_containers, fld)
    IN  IF fld.maybe_options = <<>>
        THEN [type_expr |-> full_rtype, comment |-> <<>>]
        ELSE [type_expr |-> full_rtype,
              comment |-> <<[fld |-> fld, is_last |-> is_last]>>]

-----------------------------------------------------------------------------
(* util.rs: the import-count sort.  A vector element is an ImportsFiles     *)
(* [name, file]; of a file the sort reads imports.len() only, kept as the   *)
(* number file.imports.  A call returns [returns |-> TRUE, arr |-> vector], *)
(* or [returns |-> FALSE, arr |-> <<>>] when it does not return.            *)

\* variant of TakeLeft: the comparison reversed
TakeLeft_Reversed(l, r) == l.file.imports > r.file.imports

\* util.rs line 26: the comparison that takes the left element
TakeLeft(l, r) == l.file.imports < r.file.imports

\* the three loops of merge, on 0-based i, j, k
RECURSIVE MergeLoop(_, _, _, _, _, _)
MergeLoop(arr, l, r, i, j, k) ==
    IF i < Len(l) /\ j < Len(r)
    THEN IF TakeLeft(l[i + 1], r[j + 1])
         THEN MergeLoop([arr EXCEPT ![k + 1] = l[i + 1]], l, r, i + 1, j, k + 1)
         ELSE MergeLoop([arr EXCEPT ![k + 1] = r[j + 1]], l, r, i, j + 1, k + 1)
    ELSE IF i < Len(l)
    THEN MergeLoop([arr EXCEPT ![k + 1] = l[i + 1]], l, r, i + 1, j, k + 1)
    ELSE IF j < Len(r)
    THEN MergeLoop([arr EXCEPT ![k + 1] = r[j + 1]], l, r, i, j + 1, k + 1)
    ELSE arr

\* variant of merge: the range filled with its first element
merge_FirstOnly(arr, left, mid, right) ==
    [k \in 1..Len(arr) |-> IF k > left /\ k <= right THEN arr[left + 1] ELSE arr[k]]

merge(arr, left, mid, right) ==
    LET l == SubSeq(arr, left + 1, mid)
        r == SubSeq(arr, mid + 1, right)
    IN  MergeLoop(arr, l, r, 0, 0, left)

NoReturn == [returns |-> FALSE, arr |-> <<>>]

\* `right - 1` is a usize subtraction.  With right = 0 it overflows: a build
\* with overflow checks panics there; a build without them wraps to
\* usize::MAX, which is > left, computes mid = left and calls
\* merge_sort(arr, left, mid) with the arguments it was called with, so the
\* recursion never returns (the stack overflows).  Either way the call does
\* not return.
RECURSIVE merge_sort(_, _, _)
merge_sort(arr, left, right) ==
    IF right = 0
    THEN NoReturn
    ELSE IF right - 1 > left
    THEN LET mid == left + (right - left) \div 2
             a1 == merge_sort(arr, left, mid)
             a2 == IF a1.returns THEN merge_sort(a1.arr, mid, right) ELSE NoReturn
         IN  IF a2.returns
             THEN [returns |-> TRUE, arr |-> merge(a2.arr, left, mid, right)]
             ELSE NoReturn
    ELSE [returns |-> TRUE, arr |-> arr]

\* how a merge_sort call that does not return ends the process
SortAbortKinds == {"subtract_overflow_panic", "stack_overflow"}

-----------------------------------------------------------------------------
(* The file system handed to the loader.  An entry is                       *)
(*   [k, types, imports, crc_ok, ch]                                        *)
(* with k the kind of the entry:                                            *)
(*   "good"        a regular file that reads and parses                     *)
(*   "malformed"   a regular file that reads and does not parse             *)
(*   "unreadable"  a regular file read_to_string fails on                   *)
(*   "nonutf8"     a regular file that parses, at a path that is not UTF-8  *)
(*   "broken"      an entry whose DirEntry or metadata is an Err            *)
(*   "other"       neither a file nor a directory                           *)
(*   "dir"         a directory with the entries ch, in read_dir order       *)
(*   "udir"        a directory read_dir fails on                            *)
(*   "nudir"       a directory at a path that is not UTF-8                  *)
(*   "loop"        a symbolic link to the directory that holds it           *)
(* types: the file name ends with "_types.api.json"; imports: the length    *)
(* of the file's imports; crc_ok: every message's crc starts with "0x".     *)
(* The path of an entry is the sequence of its positions from the root.     *)

Entry(k, types, imports, crc_ok, ch) ==
    [k |-> k, types |-> types, imports |-> imports, crc_ok |-> crc_ok, ch |-> ch]

Leaf(k) == Entry(k, FALSE, 0, TRUE, <<>>)
Dir(ch) == Entry("dir", FALSE, 0, TRUE, ch)

\* the files of the corpora given to parse_type_tree
GenLeaves ==
    {Entry("good", TRUE, 0, TRUE, <<>>), Entry("good", TRUE, 1, TRUE, <<>>),
     Entry("good", FALSE, 0, TRUE, <<>>), Entry("good", FALSE, 1, FALSE, <<>>),
     Leaf("malformed")}

\* the entries of the trees given to parse_api_tree
TreeLeaves ==
    {Entry("good", TRUE, 0, TRUE, <<>>), Entry("good", FALSE, 1, TRUE, <<>>),
     Leaf("malformed"), Leaf("unreadable"), Leaf("nonutf8"), Leaf("broken"),
     Leaf("other"), Leaf("udir"), Leaf("nudir")}

\* the sequences of entries with n entries in all, nested ones included
RECURSIVE Forests(_, _)
Forests(leaves, n) ==
    IF n = 0 THEN {<<>>}
    ELSE UNION {
           LET firsts == IF s = 1
                         THEN leaves \cup {Dir(<<>>)}
                         ELSE {Dir(c) : c \in Forests(leaves, s - 1)}
           IN  {<<e>> \o rest : e \in firsts, rest \in Forests(leaves, n - s)}
           : s \in 1..n}

Trees(leaves, max) == {Dir(f) : f \in UNION {Forests(leaves, n) : n \in 0..max}}

\* the entry at a path; a path that goes on through a "loop" link goes on
\* in the directory that holds the link
RECURSIVE EntryAt(_, _)
EntryAt(t, path) ==
    IF path = <<>> THEN t
    ELSE LET c == t.ch[Head(path)]
         IN  IF Tail(path) = <<>> THEN c
             ELSE EntryAt(IF c.k = "loop" THEN t ELSE c, Tail(path))

\* the number of symbolic links on a path
RECURSIVE CountLinks(_, _)
CountLinks(t, path) ==
    IF path = <<>> THEN 0
    ELSE LET c == t.ch[Head(path)]
         IN  IF c.k = "loop"
             THEN 1 + CountLinks(t, Tail(path))
             ELSE CountLinks(c, Tail(path))

\* the entry a path leads to when a final "loop" link is followed
RECURSIVE Follow(_, _)
Follow(t, path) ==
    LET e == EntryAt(t, path)
    IN  IF e.k # "loop" THEN e ELSE Follow(t, Take(path, Len(path) - 1))

\* the trees with symbolic links given to parse_api_tree
LinkLeaves == {Entry("good", TRUE, 0, TRUE, <<>>), Leaf("malformed"), Leaf("loop")}

\* the VppJsApiFile parsed from a good file: what the run reads of it
FileOf(e) == [types |-> e.types, imports |-> e.imports, crc_ok |-> e.crc_ok]

-----------------------------------------------------------------------------
(* parser_helper.rs: parse_api_tree.                                        *)

\* variant of MapInsert: the pair put in front
MapInsert_Front(map, name, file) ==
    <<[name |-> name, file |-> file]>> \o SelectSeq(map, LAMBDA kv : kv.name # name)

\* LinkedHashMap::insert: a new key goes to the back; an existing key has
\* its value replaced and moves to the back
MapInsert(map, name, file) ==
    Append(SelectSeq(map, LAMBDA kv : kv.name # name), [name |-> name, file |-> file])

\* variant of EntryStep: the parse result of a file unwrapped
EntryStep_UnwrapParse(e) ==
    CASE e.k = "broken" -> "panic_metadata"
      [] e.k = "good" -> "insert"
      [] e.k = "nonutf8" -> "panic_to_str"
      [] e.k = "malformed" -> "panic_to_str"
      [] e.k = "unreadable" -> "error_reading"
      [] e.k = "dir" -> "recurse"
      [] e.k = "udir" -> "panic_read_dir"
      [] e.k = "nudir" -> "panic_to_str"
      [] OTHER -> "skip"

\* the entry at path as fs::metadata(&path) and fs::read_dir(path) see it:
\* they follow symbolic links, so a "loop" link is the directory that holds
\* it, and they return Err for a path with more links than the system
\* follows
Stat(t, path) ==
    IF CountLinks(t, path) > MaxLinks THEN Leaf("broken") ELSE Follow(t, path)

\* what the loop body does with an entry
EntryStep(e) ==
    CASE e.k = "broken" -> "panic_metadata"
      [] e.k = "good" -> "insert"
      [] e.k = "nonutf8" -> "panic_to_str"
      [] e.k = "malformed" -> "error_loading"
      [] e.k = "unreadable" -> "error_reading"
      [] e.k = "dir" -> "recurse"
      [] e.k = "udir" -> "panic_read_dir"
      [] e.k = "nudir" -> "panic_to_str"
      [] OTHER -> "skip"

Fail(what, path) == <<[at |-> pc, what |-> what, path |-> path]>>

NoOpts == [print_message_names |-> FALSE, generate_code |-> FALSE,
           create_binding |-> FALSE, create_package |-> FALSE]

GenIdle ==
    /\ entry_fn = "none"
    /\ opts = NoOpts
    /\ tree = Dir(<<>>)
    /\ pc = "idle"
    /\ failure = <<>>
    /\ stack = <<>>
    /\ api_files = <<>>
    /\ diags = <<>>
    /\ out = <<>>
    /\ sort_in = <<>>
    /\ sort_out = <<>>
    /\ emitted = <<>>
    /\ pkg = [dirs |-> 0, scaffold |-> FALSE]

MapIdle ==
    /\ call = [fn |-> "none"]
    /\ ret = <<>>

\* a u32 is kept as its two 16-bit halves, [hi, lo] for hi * 2^16 + lo
Half == 65536
U32Of(hi, lo) == [hi |-> hi, lo |-> lo]

ClientIdle ==
    /\ client = [kind |-> "none", client_index |-> U32Of(0, 0),
                 context_id |-> U32Of(0, 0), bursts |-> 0, resolver |-> <<>>]
    /\ sent = <<>>
    /\ replies = <<>>

ConnIdle ==
    /\ msg = <<>>
    /\ msg_log = <<>>
    /\ connect_reply = <<>>
    /\ inbox = <<>>
    /\ calls = <<>>
    /\ vpp = [answered |-> 0, events |-> 0, callback |-> <<>>]
    /\ lock = 0
    /\ tasks = <<>>

\* fs::read_dir(root).unwrap() of the outermost call
ReadDirRoot ==
    /\ pc = "start"
    /\ entry_fn \in {"parse_api_tree", "parse_type_tree"}
    /\ IF tree.k = "dir"
       THEN /\ stack' = <<[dir |-> <<>>, idx |-> 1]>>
            /\ pc' = "walk"
            /\ UNCHANGED failure
       ELSE /\ failure' = Fail("panic_read_dir", <<>>)
            /\ pc' = "failed"
            /\ UNCHANGED stack
    /\ UNCHANGED <<entry_fn, opts, tree, api_files, diags, out, sort_in, sort_out,
                   emitted, pkg, mapVars, clientVars, connVars>>

\* one iteration of the for loop of the innermost active call
WalkEntry ==
    /\ pc = "walk"
    /\ stack # <<>>
    /\ LET top == stack[Len(stack)]
           entries == Stat(tree, top.dir).ch
       IN  /\ top.idx <= Len(entries)
           /\ LET path == Append(top.dir, top.idx)
                  e == Stat(tree, path)
                  step == EntryStep(e)
                  advanced == [stack EXCEPT ![Len(stack)].idx = top.idx + 1]
              IN  /\ api_files' = IF step = "insert"
                                  THEN MapInsert(api_files, path, FileOf(e))
                                  ELSE api_files
                  /\ diags' = IF step \in {"error_loading", "error_reading"}
                              THEN Append(diags, [what |-> step, path |-> path])
                              ELSE diags
                  /\ IF step \in {"panic_metadata", "panic_to_str", "panic_read_dir"}
                     THEN /\ failure' = Fail(step, path)
                          /\ pc' = "failed"
                          /\ UNCHANGED stack
                     ELSE /\ stack' = IF step = "recurse"
                                      THEN Append(advanced, [dir |-> path, idx |-> 1])
                                      ELSE advanced
                          /\ UNCHANGED <<pc, failure>>
    /\ UNCHANGED <<entry_fn, opts, tree, out, sort_in, sort_out, emitted, pkg, mapVars, clientVars, connVars>>

\* the for loop of the innermost call is over: the call returns
WalkReturn ==
    /\ pc = "walk"
    /\ stack # <<>>
    /\ LET top == stack[Len(stack)]
       IN  top.idx > Len(Stat(tree, top.dir).ch)
    /\ stack' = SubSeq(stack, 1, Len(stack) - 1)
    /\ pc' = IF Len(stack) > 1 THEN "walk"
             ELSE IF entry_fn = "parse_api_tree" THEN "returned"
             ELSE "loaded"
    /\ UNCHANGED <<entry_fn, opts, tree, failure, api_files, diags, out, sort_in,
                   sort_out, emitted, pkg, mapVars, clientVars, connVars>>

GenStart ==
    /\ pc = "start"
    /\ failure = <<>>
    /\ stack = <<>>
    /\ api_files = <<>>
    /\ diags = <<>>
    /\ out = <<>>
    /\ sort_in = <<>>
    /\ sort_out = <<>>
    /\ emitted = <<>>
    /\ pkg = [dirs |-> 0, scaffold |-> FALSE]

TreeInit ==
    /\ entry_fn = "parse_api_tree"
    /\ opts = NoOpts
    /\ tree \in Trees(TreeLeaves, MaxTreeEntries) \cup {Leaf("udir")}
    /\ GenStart
    /\ MapIdle
    /\ ClientIdle
    /\ ConnIdle

TreeNext == ReadDirRoot \/ WalkEntry \/ WalkReturn

SpecTree == TreeInit /\ [][TreeNext]_vars

\* parse_api_tree on a tree that may hold symbolic links.  The walk is one
\* sequential call: it goes on as long as it has a step to take.
LinkInit ==
    /\ entry_fn = "parse_api_tree"
    /\ opts = NoOpts
    /\ tree \in Trees(LinkLeaves, MaxLinkEntries)
    /\ GenStart
    /\ MapIdle
    /\ ClientIdle
    /\ ConnIdle

SpecLinks == LinkInit /\ [][TreeNext]_vars /\ WF_vars(TreeNext)

-----------------------------------------------------------------------------
(* lib.rs: parse_type_tree after the load, and parse_type_file.             *)

\* name.ends_with("_types.api.json")
IsTypes(kv) == kv.file.types

TypesOf(map) == SelectSeq(map, IsTypes)
NonTypesOf(map) == SelectSeq(map, LAMBDA kv : ~IsTypes(kv))

\* the gen_code calls of one pass over the files fs, as emitter records
Calls(pass, fs) == [i \in 1..Len(fs) |-> [pass |-> pass, name |-> fs[i].name]]

\* lib.rs 55-64: the summary line, then with print_message_names each file's
\* name followed by strip_prefix("0x").unwrap() on every message's crc,
\* which panics at the first file holding a crc without the prefix
FirstBadCrc(map) ==
    IF \E i \in 1..Len(map) : ~map[i].file.crc_ok
    THEN CHOOSE i \in 1..Len(map) :
             /\ ~map[i].file.crc_ok
             /\ \A j \in 1..(i - 1) : map[j].file.crc_ok
    ELSE 0

PrintNames ==
    /\ pc = "loaded"
    /\ LET bad == IF opts.print_message_names THEN FirstBadCrc(api_files) ELSE 0
           upto == IF ~opts.print_message_names THEN 0
                   ELSE IF bad = 0 THEN Len(api_files) ELSE bad
       IN  /\ out' = out \o <<[line |-> "loaded", n |-> Len(api_files), name |-> <<>>]>>
                         \o [i \in 1..upto |->
                                [line |-> "name", n |-> 0, name |-> api_files[i].name]]
           /\ IF bad = 0
              THEN pc' = "printed" /\ UNCHANGED failure
              ELSE pc' = "failed" /\ failure' = Fail("panic_crc_unwrap", api_files[bad].name)
    /\ UNCHANGED <<entry_fn, opts, tree, stack, api_files, diags, sort_in, sort_out,
                   emitted, pkg, mapVars, clientVars, connVars>>

\* variant of GeneratePassCalls: the generate_code test dropped
GeneratePassCalls_Unguarded(o, map) == Calls("generate", map)

\* lib.rs 65-77: with generate_code, every loaded file in load order
GeneratePassCalls(o, map) ==
    IF o.generate_code THEN Calls("generate", map) ELSE <<>>

GeneratePass ==
    /\ pc = "printed"
    /\ emitted' = emitted \o GeneratePassCalls(opts, api_files)
    /\ pc' = "generated"
    /\ UNCHANGED <<entry_fn, opts, tree, failure, stack, api_files, diags, out,
                   sort_in, sort_out, pkg, mapVars, clientVars, connVars>>

\* lib.rs 79-90 and 149-158: the types files, in load order, then sorted
ImportCollection(map) ==
    [i \in 1..Len(TypesOf(map)) |-> [name |-> TypesOf(map)[i].name,
                                     file |-> TypesOf(map)[i].file]]

SortCollection(coll) == merge_sort(coll, 0, Len(coll))

\* lib.rs 91-112 and 159-178: the sorted types files, then the other files
\* in load order
OrderedPassCalls(pass, sorted, map) ==
    Calls(pass, sorted) \o Calls(pass, NonTypesOf(map))

\* lib.rs 78-113
BindingPass ==
    /\ pc = "generated"
    /\ IF ~opts.create_binding
       THEN /\ pc' = "bound"
            /\ UNCHANGED <<failure, sort_in, sort_out, emitted, out>>
       ELSE LET coll == ImportCollection(api_files)
                res == SortCollection(coll)
            IN  /\ sort_in' = coll
                /\ IF res.returns
                   THEN /\ sort_out' = res.arr
                        /\ out' = out \o [i \in 1..Len(res.arr) |->
                                     [line |-> "types", n |-> res.arr[i].file.imports,
                                      name |-> res.arr[i].name]]
                        /\ emitted' = emitted
                                        \o OrderedPassCalls("binding", res.arr, api_files)
                        /\ pc' = "bound"
                        /\ UNCHANGED failure
                   ELSE /\ \E kind \in SortAbortKinds : failure' = Fail(kind, <<>>)
                        /\ pc' = "failed"
                        /\ UNCHANGED <<sort_out, emitted, out>>
    /\ UNCHANGED <<entry_fn, opts, tree, stack, api_files, diags, pkg, mapVars, clientVars, connVars>>

\* the create_dir_all calls of lib.rs 118-131, in order
PackageDirs == 4

\* variant of PackageProgress: the Err of create_dir_all ignored
PackageProgress_IgnoreErr(fail) ==
    [dirs |-> IF fail # 0 THEN fail - 1 ELSE PackageDirs, scaffold |-> TRUE]

\* lib.rs 118-147: the directories created and whether generate_lib_file,
\* create_cargo_toml and the two copy_file_with_fixup calls were made, when
\* create_dir_all call number fail returns Err (0: none does); expect()
\* panics on the Err
PackageProgress(fail) ==
    IF fail # 0
    THEN [dirs |-> fail - 1, scaffold |-> FALSE]
    ELSE [dirs |-> PackageDirs, scaffold |-> TRUE]

\* lib.rs 114-179.  fail is the create_dir_all call that returns Err (0: none).
PackagePass ==
    /\ pc = "bound"
    /\ IF ~opts.create_package
       THEN /\ pc' = "done"
            /\ UNCHANGED <<failure, sort_in, sort_out, emitted, pkg, out>>
       ELSE \E fail \in 0..PackageDirs :
            /\ out' = Append(out, [line |-> "package", n |-> 0, name |-> <<>>])
            /\ pkg' = PackageProgress(fail)
            /\ IF fail # 0
              THEN /\ failure' = Fail("panic_create_dir", <<>>)
                   /\ pc' = "failed"
                   /\ UNCHANGED <<sort_in, sort_out, emitted>>
              ELSE LET coll == ImportCollection(api_files)
                       res == SortCollection(coll)
                   IN  /\ sort_in' = coll
                       /\ IF res.returns
                          THEN /\ sort_out' = res.arr
                               /\ emitted' = emitted
                                     \o OrderedPassCalls("package", res.arr, api_files)
                               /\ pc' = "done"
                               /\ UNCHANGED failure
                          ELSE /\ \E kind \in SortAbortKinds : failure' = Fail(kind, <<>>)
                               /\ pc' = "failed"
                               /\ UNCHANGED <<sort_out, emitted>>
    /\ UNCHANGED <<entry_fn, opts, tree, stack, api_files, diags, mapVars, clientVars, connVars>>

\* lib.rs 21-49: parse_type_file on the data of one file
ParseTypeFileCalls(o) ==
    IF o.generate_code THEN <<[pass |-> "file", name |-> <<>>]>> ELSE <<>>

ParseTypeFile ==
    /\ pc = "start"
    /\ entry_fn = "parse_type_file"
    /\ IF tree.k = "good"
       THEN /\ emitted' = emitted \o ParseTypeFileCalls(opts)
            /\ pc' = "done"
            /\ UNCHANGED failure
       ELSE /\ failure' = Fail("panic_from_str", <<>>)
            /\ pc' = "failed"
            /\ UNCHANGED emitted
    /\ UNCHANGED <<entry_fn, opts, tree, stack, api_files, diags, out, sort_in,
                   sort_out, pkg, mapVars, clientVars, connVars>>

\* util.rs 50-58: merge_sort(arr, 0, arr.len()) called on its own
MergeSortCall ==
    /\ pc = "start"
    /\ entry_fn = "merge_sort"
    /\ LET res == SortCollection(sort_in)
       IN  IF res.returns
           THEN /\ sort_out' = res.arr
                /\ pc' = "returned"
                /\ UNCHANGED failure
           ELSE /\ \E kind \in SortAbortKinds : failure' = Fail(kind, <<>>)
                /\ pc' = "failed"
                /\ UNCHANGED sort_out
    /\ UNCHANGED <<entry_fn, opts, tree, stack, api_files, diags, out, sort_in,
                   emitted, pkg, mapVars, clientVars, connVars>>

AllOpts == [print_message_names : BOOLEAN, generate_code : BOOLEAN,
            create_binding : BOOLEAN, create_package : BOOLEAN]

\* the vectors handed to merge_sort on its own: element i is named <<i>>
RECURSIVE ImportVectors(_)
ImportVectors(n) ==
    IF n = 0 THEN {<<>>}
    ELSE {Append(v, [name |-> <<n>>,
                     file |-> [types |-> TRUE, imports |-> c, crc_ok |-> TRUE]])
          : v \in ImportVectors(n - 1), c \in 0..MaxImports}

Init ==
    /\ MapIdle
    /\ ClientIdle
    /\ ConnIdle
    /\ \/ /\ entry_fn = "parse_type_tree"
          /\ opts \in AllOpts
          /\ tree \in Trees(GenLeaves, MaxGenEntries) \cup {Leaf("udir")}
          /\ GenStart
       \/ /\ entry_fn = "parse_type_file"
          /\ opts \in AllOpts
          /\ tree \in GenLeaves
          /\ GenStart
       \/ /\ entry_fn = "merge_sort"
          /\ opts = NoOpts
          /\ tree = Dir(<<>>)
          /\ pc = "start"
          /\ failure = <<>>
          /\ stack = <<>>
          /\ api_files = <<>>
          /\ diags = <<>>
          /\ out = <<>>
          /\ sort_in \in UNION {ImportVectors(n) : n \in 0..MaxSortLen}
          /\ sort_out = <<>>
          /\ emitted = <<>>
          /\ pkg = [dirs |-> 0, scaffold |-> FALSE]

Next ==
    \/ ReadDirRoot
    \/ WalkEntry
    \/ WalkReturn
    \/ PrintNames
    \/ GeneratePass
    \/ BindingPass
    \/ PackagePass
    \/ ParseTypeFile
    \/ MergeSortCall

Spec == Init /\ [][Next]_vars

-----------------------------------------------------------------------------
(* The inputs of the mappers.                                               *)

NameTokens ==
    {VlApi, SufT, Underscore, <<"s", "w">>, <<"S", "W">>, StrType, StrMatch, StrString}

RECURSIVE TokenStrings(_, _)
TokenStrings(toks, n) ==
    IF n = 0 THEN {<<>>}
    ELSE LET shorter == TokenStrings(toks, n - 1)
         IN  shorter \cup {s \o t : s \in shorter, t \in toks}

Names == TokenStrings(NameTokens, MaxTok)

CTypeTokens == {VlApi, SufT, Underscore, <<"s", "w">>, StrString}
CTypes == TokenStrings(CTypeTokens, MaxCTok)

U8 == <<"u", "8">>
U32 == <<"u", "3", "2">>
EnumKeys == {<<"S", "w">>, StrString}
EnumContainers == {U8, U32}
\* the enum registries: HashMap<String, String> from an enum's Rust name to
\* its container type
Registries == UNION {[ks -> EnumContainers] : ks \in SUBSET EnumKeys}

FieldSizes ==
    {<<>>,
     <<[kind |-> "Variable", arg |-> <<>>]>>,
     <<[kind |-> "Variable", arg |-> <<"8">>]>>,
     <<[kind |-> "Fixed", arg |-> <<"16">>]>>}
FieldOptions == {<<>>, <<"options">>}
Fields == [ctype : CTypes, maybe_size : FieldSizes, maybe_options : FieldOptions]

MapperCalls ==
    [fn : {"get_type", "get_ident", "camelize"}, arg : Names]
    \cup [fn : {"get_rust_field_type"}, enum_containers : Registries,
          fld : Fields, is_last : BOOLEAN]

-----------------------------------------------------------------------------
(* The mapper specification: one call of one mapper on one input.           *)

MapperInit ==
    /\ call \in MapperCalls
    /\ ret = <<>>
    /\ GenIdle
    /\ ClientIdle
    /\ ConnIdle

CallGetType ==
    /\ call.fn = "get_type"
    /\ ret = <<>>
    /\ ret' = <<get_type(call.arg)>>
    /\ UNCHANGED <<call, genVars, clientVars, connVars>>

CallGetIdent ==
    /\ call.fn = "get_ident"
    /\ ret = <<>>
    /\ ret' = <<get_ident(call.arg)>>
    /\ UNCHANGED <<call, genVars, clientVars, connVars>>

CallGetRustFieldType ==
    /\ call.fn = "get_rust_field_type"
    /\ ret = <<>>
    /\ ret' = <<get_rust_field_type(call.enum_containers, call.fld, call.is_last)>>
    /\ UNCHANGED <<call, genVars, clientVars, connVars>>

CallCamelize ==
    /\ call.fn = "camelize"
    /\ ret = <<>>
    /\ ret' = <<camelize(call.arg)>>
    /\ UNCHANGED <<call, genVars, clientVars, connVars>>

MapperNext == CallGetType \/ CallGetIdent \/ CallGetRustFieldType \/ CallCamelize

SpecMapper == MapperInit /\ [][MapperNext]_vars

-----------------------------------------------------------------------------
(* vpp-api-transport/src/message.rs: the hand-written messages and their    *)
(* impl of the trait VppApiMessage (vpp-api-message/src/lib.rs).  A message *)
(* is [type, f]: the struct's name and the record of its fields.            *)

MsgTypes == {"RawControlPing", "RawControlPingReply", "RawCliInband",
             "RawCliInbandReply", "MsgSockClntCreate", "MsgSockClntCreateReplyHdr"}

\* the u32 values the model gives to a u32 field or argument
U32Values == {U32Of(0, 0), U32Of(0, 7)}
\* the values the model gives to an i32 field
I32Values == {0, -1}
\* the values the model gives to a string field
StringValues == {<<>>, <<"s", "h">>}
\* the values the model gives to the array of message table entries
TableValues == {<<>>, <<[index |-> 20, name |-> "p"]>>}

\* the struct definitions: the values of each message type
Messages(type) ==
    CASE type = "RawControlPing" ->
             [client_index : U32Values, context : U32Values]
      [] type = "RawControlPingReply" ->
             [context : U32Values, retval : I32Values, client_index : U32Values,
              vpe_pid : U32Values]
      [] type = "RawCliInband" ->
             [client_index : U32Values, context : U32Values, cmd : StringValues]
      [] type = "RawCliInbandReply" ->
             [context : U32Values, retval : I32Values, reply : StringValues]
      [] type = "MsgSockClntCreate" ->
             [context : U32Values, name : StringValues]
      [] type = "MsgSockClntCreateReplyHdr" ->
             [client_index : U32Values, context : U32Values, response : I32Values,
              index : U32Values, count : {Len(t) : t \in TableValues},
              message_table : TableValues]

\* fn get_message_name_and_crc() -> String of each impl
get_message_name_and_crc(type) ==
    CASE type = "RawControlPing" -> "control_ping_51077d14"
      [] type = "RawControlPingReply" -> "control_ping_reply_f6b0b8ca"
      [] type = "RawCliInband" -> "cli_inband_f8377302"
      [] type = "RawCliInbandReply" -> "cli_inband_reply_05879051"
      [] type = "MsgSockClntCreate" -> "sockclnt_create_455fb9c4"
      [] type = "MsgSockClntCreateReplyHdr" -> "sockclnt_create_reply_35166268"

\* a set_context that writes the other stamped field too
set_context_BothFields(m, context) ==
    IF m.type \in {"RawControlPing", "RawControlPingReply", "RawCliInband",
                   "MsgSockClntCreateReplyHdr"}
    THEN [m EXCEPT !.f.context = context, !.f.client_index = context]
    ELSE [m EXCEPT !.f.context = context]

\* fn get_message_id() -> u16 of MsgSockClntCreate and of
\* MsgSockClntCreateReplyHdr
get_message_id(type) ==
    CASE type = "MsgSockClntCreate" -> 15
      [] type = "MsgSockClntCreateReplyHdr" -> 16

\* fn set_context(&mut self, context: u32) of each impl
set_context(m, context) ==
    CASE m.type = "RawControlPing" -> [m EXCEPT !.f.context = context]
      [] m.type = "RawControlPingReply" -> [m EXCEPT !.f.context = context]
      [] m.type = "RawCliInband" -> [m EXCEPT !.f.context = context]
      [] m.type = "RawCliInbandReply" -> [m EXCEPT !.f.context = context]
      [] m.type = "MsgSockClntCreate" -> [m EXCEPT !.f.context = context]
      [] m.type = "MsgSockClntCreateReplyHdr" -> [m EXCEPT !.f.context = context]

\* fn set_client_index(&mut self, client_index: u32) of each impl; the body
\* is empty for RawCliInbandReply and MsgSockClntCreate
set_client_index(m, client_index) ==
    CASE m.type = "RawControlPing" -> [m EXCEPT !.f.client_index = client_index]
      [] m.type = "RawControlPingReply" -> [m EXCEPT !.f.client_index = client_index]
      [] m.type = "RawCliInband" -> [m EXCEPT !.f.client_index = client_index]
      [] m.type = "RawCliInbandReply" -> m
      [] m.type = "MsgSockClntCreate" -> m
      [] m.type = "MsgSockClntCreateReplyHdr" ->
             [m EXCEPT !.f.client_index = client_index]

\* a message of one of the types, held by the caller
MsgInit ==
    /\ MapIdle
    /\ GenIdle
    /\ ClientIdle
    /\ \E type \in MsgTypes : \E f \in Messages(type) : msg = [type |-> type, f |-> f]
    /\ msg_log = <<>>
    /\ connect_reply = <<>>
    /\ inbox = <<>>
    /\ calls = <<>>
    /\ vpp = [answered |-> 0, events |-> 0, callback |-> <<>>]
    /\ lock = 0
    /\ tasks = <<>>

\* msg.set_context(context)
MsgSetContext ==
    /\ Len(msg_log) < MaxMsgCalls
    /\ \E context \in U32Values :
           /\ msg' = set_context(msg, context)
           /\ msg_log' = Append(msg_log, [fn |-> "set_context", arg |-> context,
                                          before |-> msg, after |-> msg', name |-> ""])
    /\ UNCHANGED <<connect_reply, inbox, calls, vpp, lock, tasks, mapVars, genVars, clientVars>>

\* msg.set_client_index(client_index)
MsgSetClientIndex ==
    /\ Len(msg_log) < MaxMsgCalls
    /\ \E client_index \in U32Values :
           /\ msg' = set_client_index(msg, client_index)
           /\ msg_log' = Append(msg_log, [fn |-> "set_client_index", arg |-> client_index,
                                          before |-> msg, after |-> msg', name |-> ""])
    /\ UNCHANGED <<connect_reply, inbox, calls, vpp, lock, tasks, mapVars, genVars, clientVars>>

\* T::get_message_name_and_crc() of the message's type: an associated
\* function, it takes no self
MsgGetNameAndCrc ==
    /\ Len(msg_log) < MaxMsgCalls
    /\ msg_log' = Append(msg_log, [fn |-> "get_message_name_and_crc", arg |-> U32Of(0, 0),
                                   before |-> msg, after |-> msg,
                                   name |-> get_message_name_and_crc(msg.type)])
    /\ UNCHANGED <<msg, connect_reply, inbox, calls, vpp, lock, tasks, mapVars, genVars, clientVars>>

MsgNext == MsgSetContext \/ MsgSetClientIndex \/ MsgGetNameAndCrc

SpecMsg == MsgInit /\ [][MsgNext]_vars

-----------------------------------------------------------------------------
(* vpp-api-transport/src/helpers.rs: frames.  A stream is the sequence of   *)
(* bytes a reader still holds; the configuration is bincode's legacy one    *)
(* with big-endian, fixed-width integers.                                   *)

\* a u16 in two bytes, the high one first
BE16(n) == <<n \div 256, n % 256>>

\* a u32 in four bytes, and back
U32Bytes(u) == BE16(u.hi) \o BE16(u.lo)
BytesU32(b) == U32Of(b[1] * 256 + b[2], b[3] * 256 + b[4])

\* an i32 in four bytes (two's complement), and back
I32Bytes(v) ==
    IF v >= 0 THEN U32Bytes(U32Of(v \div Half, v % Half))
    ELSE U32Bytes(U32Of(Half - 1 - ((-v - 1) \div Half), Half - 1 - ((-v - 1) % Half)))
BytesI32(b) ==
    LET u == BytesU32(b)
    IN  IF u.hi < Half \div 2 THEN u.hi * Half + u.lo ELSE (u.hi - Half) * Half + u.lo

\* the subsequence b[from..to] of a byte sequence, 1-based, empty if from > to
Slice(b, from, to) == SubSeq(b, from, to)

\* the message types whose fields are all integers of a fixed width
FixedTypes == {"RawControlPing", "RawControlPingReply"}

\* bincode_next::serde::encode_to_vec(msg, config) of such a message: the
\* fields in the order of the struct
EncodeMsg(m) ==
    CASE m.type = "RawControlPing" ->
             U32Bytes(m.f.client_index) \o U32Bytes(m.f.context)
      [] m.type = "RawControlPingReply" ->
             U32Bytes(m.f.context) \o I32Bytes(m.f.retval)
                 \o U32Bytes(m.f.client_index) \o U32Bytes(m.f.vpe_pid)

\* bincode_next::serde::decode_from_slice(&data, config) to such a message:
\* an error when the bytes run out, bytes left over are ignored
DecodeMsg(type, data) ==
    CASE type = "RawControlPing" ->
             IF Len(data) < 8 THEN <<>>
             ELSE <<[type |-> type,
                     f |-> [client_index |-> BytesU32(Slice(data, 1, 4)),
                            context |-> BytesU32(Slice(data, 5, 8))]]>>
      [] type = "RawControlPingReply" ->
             IF Len(data) < 16 THEN <<>>
             ELSE <<[type |-> type,
                     f |-> [context |-> BytesU32(Slice(data, 1, 4)),
                            retval |-> BytesI32(Slice(data, 5, 8)),
                            client_index |-> BytesU32(Slice(data, 9, 12)),
                            vpe_pid |-> BytesU32(Slice(data, 13, 16))]]>>

\* the encoded SockMsgHeader { _q: 0, msglen, gc_mark: 0 }: 16 bytes
EncodeHeader(msglen) ==
    <<0, 0, 0, 0, 0, 0, 0, 0>> \o U32Bytes(msglen) \o <<0, 0, 0, 0>>

\* A byte string is a sequence of bytes 0..255; to hold the strings that are
\* longer than a u32 counts, a number -n in it stands for n zero bytes in a
\* row, n up to MaxRun.
RunLen(x) == IF x < 0 THEN -x ELSE 1
MaxRun == (Half \div 2 - 1) * Half + Half - 1
Zeros(n) == IF n = 1 THEN <<0>> ELSE <<-n>>

\* bytes.len(), a usize: hi * 2^16 + lo; AddLen counts the bytes on top of
\* a length counted already
RECURSIVE AddLen(_, _)
AddLen(len, bytes) ==
    IF bytes = <<>> THEN len
    ELSE AddLen([hi |-> len.hi + (RunLen(Head(bytes)) \div Half)
                            + ((len.lo + (RunLen(Head(bytes)) % Half)) \div Half),
                 lo |-> (len.lo + (RunLen(Head(bytes)) % Half)) % Half],
                Tail(bytes))
ByteLen(bytes) == AddLen([hi |-> 0, lo |-> 0], bytes)

\* len as u32: the low 32 bits
AsU32(len) == U32Of(len.hi % Half, len.lo)

\* a short byte string with its rows of zero bytes written out
RECURSIVE Expand(_)
Expand(bytes) ==
    IF bytes = <<>> THEN <<>>
    ELSE IF Head(bytes) < 0 THEN [i \in 1..(-Head(bytes)) |-> 0] \o Expand(Tail(bytes))
    ELSE <<Head(bytes)>> \o Expand(Tail(bytes))

\* reader.read_exact(&mut buf) for a buffer of count bytes, count a u32:
\* the bytes read and the stream left, or an error when the stream ends
\* before the buffer is full; ReadMore fills the rest of a buffer that holds
\* data already
RECURSIVE ReadMore(_, _, _)
ReadMore(stream, count, data) ==
    IF count = U32Of(0, 0) THEN [ok |-> TRUE, data |-> data, rest |-> stream]
    ELSE IF stream = <<>> THEN [ok |-> FALSE, data |-> <<>>, rest |-> <<>>]
    ELSE LET n == RunLen(Head(stream))
             fits == \/ count.hi > (n \div Half)
                     \/ count.hi = (n \div Half) /\ count.lo >= (n % Half)
             borrow == IF count.lo < (n % Half) THEN 1 ELSE 0
             left == U32Of(count.hi - (n \div Half) - borrow,
                           (count.lo + Half - (n % Half)) % Half)
             c == count.hi * Half + count.lo
         IN  IF fits
             THEN ReadMore(Tail(stream), left, Append(data, Head(stream)))
             ELSE [ok |-> TRUE, data |-> data \o Zeros(c),
                   rest |-> Zeros(n - c) \o Tail(stream)]
read_exact(stream, count) == ReadMore(stream, count, <<>>)

\* the bytes write_frame hands to the writer for the frame bytes
write_frame(bytes, has_socket_header) ==
    IF has_socket_header
    THEN EncodeHeader(AsU32(ByteLen(bytes))) \o bytes
    ELSE bytes

\* resolve_id(name): the id the resolver holds for the name, if any; a
\* resolver is a function from the names to <<>> or <<id>>
resolve_id(resolver, name) == resolver[name]

\* write_object: the bytes written for the message, <<>> when the name of
\* its type is not resolved
write_object(m, resolver, has_socket_header) ==
    LET msg_id == resolve_id(resolver, get_message_name_and_crc(m.type))
    IN  IF msg_id = <<>> THEN <<>>
        ELSE write_frame(BE16(msg_id[1]) \o EncodeMsg(m), has_socket_header)

\* the result of a read: ok, what went wrong, the value, the stream left
ReadErr(err, rest) == [ok |-> FALSE, err |-> err, value |-> <<>>, rest |-> rest]
ReadOk(value, rest) == [ok |-> TRUE, err |-> "", value |-> value, rest |-> rest]

\* read_header after its read_exact: the error, or the header decoded from
\* the 16 bytes; the value is msglen
DecodeHeader(header_buf) ==
    IF ~header_buf.ok THEN ReadErr("Invalid header", <<>>)
    ELSE ReadOk(BytesU32(Slice(Expand(header_buf.data), 9, 12)), header_buf.rest)

\* read_header: 16 bytes by read_exact, decoded to a SockMsgHeader
read_header(stream) == DecodeHeader(read_exact(stream, U32Of(0, 16)))

\* read_frame after the read_exact of its data
FrameData(data) ==
    IF ~data.ok THEN ReadErr("Invalid Message", <<>>)
    ELSE ReadOk(data.data, data.rest)

\* read_frame after read_header: a msglen of 0 is refused, else msglen bytes
\* are read by read_exact
FrameAfter(header) ==
    IF ~header.ok THEN header
    ELSE IF header.value = U32Of(0, 0)
         THEN ReadErr("Invalid header, header.msglen == 0", header.rest)
    ELSE FrameData(read_exact(header.rest, header.value))

\* read_frame: with a header msglen bytes by read_exact, without one
\* whatever one read returns
read_frame(stream, has_socket_header) ==
    IF has_socket_header THEN FrameAfter(read_header(stream))
    ELSE IF stream = <<>> THEN ReadErr("Invalid Message: 0 bytes len", <<>>)
         ELSE ReadOk(stream, <<>>)

\* a split that adds the two bytes of the id without the shift
split_into_id_and_msg_NoShift(data) ==
    IF Len(data) < 3 THEN [ok |-> FALSE, msg_id |-> 0, data |-> <<>>]
    ELSE [ok |-> TRUE, msg_id |-> data[1] + data[2],
          data |-> Slice(data, 3, Len(data))]

\* split_into_id_and_msg: the id of the first two bytes and the bytes after
split_into_id_and_msg(data) ==
    IF Len(data) < 3 THEN [ok |-> FALSE, msg_id |-> 0, data |-> <<>>]
    ELSE [ok |-> TRUE, msg_id |-> data[1] * 256 + data[2],
          data |-> Slice(data, 3, Len(data))]

\* read_object::<T>: resolve the id of T, read one frame, split it, compare
\* the ids, decode
read_object(stream, resolver, T, has_socket_header) ==
    LET expected_msg_id == resolve_id(resolver, get_message_name_and_crc(T))
        encoded == read_frame(stream, has_socket_header)
        split == split_into_id_and_msg(encoded.value)
        decode_result == DecodeMsg(T, split.data)
    IN  IF expected_msg_id = <<>> THEN ReadErr("Cannot find message id", stream)
        ELSE IF ~encoded.ok THEN encoded
        ELSE IF ~split.ok THEN ReadErr("short read message", encoded.rest)
        ELSE IF split.msg_id # expected_msg_id[1]
             THEN ReadErr("Unexpected message id", encoded.rest)
        ELSE IF decode_result = <<>> THEN ReadErr("decode", encoded.rest)
        ELSE ReadOk(decode_result, encoded.rest)

\* the names a resolver is asked for
MsgNames == {get_message_name_and_crc(type) : type \in MsgTypes}

\* the resolvers of the model: one that knows no name, one that knows the
\* control ping alone, two that know the control ping and its reply
Resolvers ==
    {[n \in MsgNames |-> <<>>],
     [n \in MsgNames |-> IF n = "control_ping_51077d14" THEN <<261>> ELSE <<>>],
     [n \in MsgNames |-> IF n = "control_ping_51077d14" THEN <<261>>
                         ELSE IF n = "control_ping_reply_f6b0b8ca" THEN <<262>>
                         ELSE <<>>],
     [n \in MsgNames |-> IF n = "control_ping_51077d14" THEN <<262>>
                         ELSE IF n = "control_ping_reply_f6b0b8ca" THEN <<6>>
                         ELSE <<>>]}

\* the message ids found in the frames of the model
FrameIds == {6, 261, 262}

\* the bytes after the id in the frames of the model: encoded messages,
\* nothing, and too few bytes for any message
FramePayloads ==
    {EncodeMsg([type |-> "RawControlPingReply", f |-> f]) :
         f \in [context : U32Values, retval : I32Values,
                client_index : {U32Of(0, 0)}, vpe_pid : {U32Of(0, 7)}]}
    \cup {EncodeMsg([type |-> "RawControlPing", f |-> f]) :
              f \in [client_index : {U32Of(0, 0)}, context : U32Values]}
    \cup {<<>>, <<9>>, <<0, 0, 0, 7, 0, 0>>}

\* what a peer may have written as one frame, before the header
FrameBytes ==
    {BE16(id) \o p : id \in FrameIds, p \in FramePayloads} \cup {<<>>, <<1>>}

\* the streams handed to read_object: with socket headers one frame, two
\* frames, a cut header and a header that announces more than follows;
\* without, the content of one buffer
Streams(has_socket_header) ==
    IF has_socket_header
    THEN {write_frame(b, TRUE) : b \in FrameBytes}
         \cup {write_frame(b, TRUE) \o write_frame(<<1, 6, 0, 0, 0, 7>>, TRUE) :
                   b \in FrameBytes \ {<<>>}}
         \cup {<<>>, <<0, 0, 0, 0, 0, 0, 0, 0, 0, 0>>,
               EncodeHeader(U32Of(0, 30)) \o <<1, 6, 0>>,
               EncodeHeader(U32Of(1, 4)) \o <<1, 6, 0, 0>>}
    ELSE FrameBytes

\* one call of read_object::<T> on a stream
ReadInit ==
    /\ GenIdle
    /\ ClientIdle
    /\ ConnIdle
    /\ \E has_socket_header \in BOOLEAN :
           call \in [fn : {"read_object"}, T : FixedTypes, resolver : Resolvers,
                     stream : Streams(has_socket_header),
                     has_socket_header : {has_socket_header}]
    /\ ret = <<>>

CallReadObject ==
    /\ call.fn = "read_object"
    /\ ret = <<>>
    /\ ret' = <<read_object(call.stream, call.resolver, call.T, call.has_socket_header)>>
    /\ UNCHANGED <<call, genVars, clientVars, connVars>>

SpecRead == ReadInit /\ [][CallReadObject]_vars

-----------------------------------------------------------------------------
(* vpp-api-transport/src/helpers.rs: a writer that calls write_frame with   *)
(* a socket header for one payload after another, and a reader that calls   *)
(* read_frame on the bytes written.  sent holds the payloads written, inbox *)
(* the bytes between writer and reader, replies what read_frame returned.   *)
(* The reads start when the writer is done, so that no read waits for bytes *)
(* still to be written.                                                     *)

\* a payload of 2^32 zero bytes
Giant == <<-MaxRun, -MaxRun, -2>>

\* the payloads the writer chooses from, none of them empty
FrameWrites == {<<1>>, <<2, 3>>, <<0, 0, 0>>, Giant}

FrameInit ==
    /\ MapIdle
    /\ GenIdle
    /\ ConnIdle
    /\ client = [kind |-> "afunix", client_index |-> U32Of(0, 0),
                 context_id |-> U32Of(0, 0), bursts |-> 0, resolver |-> <<>>]
    /\ sent = <<>>
    /\ replies = <<>>

\* write_frame(writer, bytes, config, true)
WriteFrame ==
    /\ replies = <<>>
    /\ Len(sent) < MaxFrames
    /\ \E bytes \in FrameWrites :
           /\ sent' = Append(sent, bytes)
           /\ inbox' = inbox \o write_frame(bytes, TRUE)
    /\ UNCHANGED <<client, replies, msg, msg_log, connect_reply, calls, vpp,
                   lock, tasks, mapVars, genVars>>

\* read_frame(reader, config, true)
ReadFrame ==
    /\ Len(replies) < Len(sent)
    /\ LET data == read_frame(inbox, TRUE)
       IN  /\ replies' = Append(replies, [ok |-> data.ok, err |-> data.err,
                                          value |-> data.value])
           /\ inbox' = data.rest
    /\ UNCHANGED <<client, sent, msg, msg_log, connect_reply, calls, vpp,
                   lock, tasks, mapVars, genVars>>

FrameNext == WriteFrame \/ ReadFrame

SpecFrame == FrameInit /\ [][FrameNext]_vars

-----------------------------------------------------------------------------
(* vpp-api-transport/src/reqrecv.rs: the request/reply helpers over a       *)
(* transport t: &mut dyn VppApiTransport.  Of the transport the model keeps *)
(* what the helpers ask of it: known, the ids get_msg_index has (<<>> for   *)
(* a name it has not); write, how its writes end (complete: all of them    *)
(* in full; short: t.write wrote a part of the buffer, and of two write_all *)
(* calls the first went through and the second failed; err: the first write *)
(* failed); incoming, what                                                  *)
(* read_one_msg_id_and_msg returns call after call, an Err once incoming is *)
(* used up; client_index.                                                   *)

ReqFns == {"send_recv_one", "send_recv_many", "send_recv_msg", "send_bulk_msg"}

\* t.get_msg_index(name)
get_msg_index(t, name) == t.known[name]

\* the i-th result of t.read_one_msg_id_and_msg(), counted from 1
read_one_msg_id_and_msg(t, i) ==
    IF i <= Len(t.incoming) THEN t.incoming[i]
    ELSE [ok |-> FALSE, msg_id |-> 0, data |-> <<>>]

\* what a helper did: how it ended (ok, err, panic), the value it returned,
\* the reads it made and the buffers it wrote in full
ReqResult(outcome, value, reads, writes) ==
    [outcome |-> outcome, value |-> value, reads |-> reads, writes |-> writes]

\* a loop of send_recv_one that takes the first message read, whatever its id
RecvOneLoop_AnyId(TR, reply_vl_msg_id, t, i, writes, fail) ==
    LET res == read_one_msg_id_and_msg(t, i + 1)
        decoded == DecodeMsg(TR, res.data)
    IN  IF ~res.ok \/ decoded = <<>> THEN ReqResult(fail, <<>>, i + 1, writes)
        ELSE ReqResult("ok", decoded, i + 1, writes)

\* the loop of send_recv_one and of send_recv_msg after i reads; fail is how
\* a failure ends the call: as an Err value (return Err, `?`) or as a panic
\* (panic!, unwrap)
RECURSIVE RecvOneLoop(_, _, _, _, _, _)
RecvOneLoop(TR, reply_vl_msg_id, t, i, writes, fail) ==
    LET res == read_one_msg_id_and_msg(t, i + 1)
        decoded == DecodeMsg(TR, res.data)
    IN  IF ~res.ok THEN ReqResult(fail, <<>>, i + 1, writes)
        ELSE IF res.msg_id = reply_vl_msg_id
             THEN IF decoded = <<>> THEN ReqResult(fail, <<>>, i + 1, writes)
                  ELSE ReqResult("ok", decoded, i + 1, writes)
        ELSE RecvOneLoop(TR, reply_vl_msg_id, t, i + 1, writes, fail)

\* a loop of send_recv_many that stops at no control_ping_reply
RECURSIVE RecvManyLoop_NoStop(_, _, _, _, _, _, _, _)
RecvManyLoop_NoStop(TR, control_ping_id_reply, reply_vl_msg_id, t, i, collected, writes, fail) ==
    LET res == read_one_msg_id_and_msg(t, i + 1)
        decoded == DecodeMsg(TR, res.data)
    IN  IF ~res.ok THEN ReqResult(fail, <<>>, i + 1, writes)
        ELSE IF res.msg_id = reply_vl_msg_id
             THEN IF decoded = <<>> THEN ReqResult(fail, <<>>, i + 1, writes)
                  ELSE RecvManyLoop_NoStop(TR, control_ping_id_reply, reply_vl_msg_id, t,
                                           i + 1, collected \o decoded, writes, fail)
        ELSE RecvManyLoop_NoStop(TR, control_ping_id_reply, reply_vl_msg_id, t,
                                 i + 1, collected, writes, fail)

\* the loop of send_recv_many and of send_bulk_msg after i reads, with the
\* messages collected so far
RECURSIVE RecvManyLoop(_, _, _, _, _, _, _, _)
RecvManyLoop(TR, control_ping_id_reply, reply_vl_msg_id, t, i, collected, writes, fail) ==
    LET res == read_one_msg_id_and_msg(t, i + 1)
        decoded == DecodeMsg(TR, res.data)
    IN  IF ~res.ok THEN ReqResult(fail, <<>>, i + 1, writes)
        ELSE IF res.msg_id = control_ping_id_reply
             THEN ReqResult("ok", collected, i + 1, writes)
        ELSE IF res.msg_id = reply_vl_msg_id
             THEN IF decoded = <<>> THEN ReqResult(fail, <<>>, i + 1, writes)
                  ELSE RecvManyLoop(TR, control_ping_id_reply, reply_vl_msg_id, t,
                                    i + 1, collected \o decoded, writes, fail)
        ELSE RecvManyLoop(TR, control_ping_id_reply, reply_vl_msg_id, t,
                          i + 1, collected, writes, fail)

\* send_recv_one::<T, TR>(m, t): the ids by get_msg_index(..).unwrap(), one
\* t.write of the id and the message, then the loop
send_recv_one(m, TR, t) ==
    LET vl_msg_id == get_msg_index(t, get_message_name_and_crc(m.type))
        reply_vl_msg_id == get_msg_index(t, get_message_name_and_crc(TR))
        v == BE16(vl_msg_id[1]) \o EncodeMsg(m)
    IN  IF vl_msg_id = <<>> \/ reply_vl_msg_id = <<>>
        THEN ReqResult("panic", <<>>, 0, <<>>)
        ELSE IF t.write # "complete" THEN ReqResult("err", <<>>, 0, <<>>)
        ELSE RecvOneLoop(TR, reply_vl_msg_id[1], t, 0, <<v>>, "err")

\* send_recv_msg(name, m, t, reply_name): as send_recv_one, with a panic
\* where that returns an Err
send_recv_msg(m, TR, t) ==
    LET vl_msg_id == get_msg_index(t, get_message_name_and_crc(m.type))
        reply_vl_msg_id == get_msg_index(t, get_message_name_and_crc(TR))
        v == BE16(vl_msg_id[1]) \o EncodeMsg(m)
    IN  IF vl_msg_id = <<>> \/ reply_vl_msg_id = <<>>
        THEN ReqResult("panic", <<>>, 0, <<>>)
        ELSE IF t.write # "complete" THEN ReqResult("panic", <<>>, 0, <<>>)
        ELSE RecvOneLoop(TR, reply_vl_msg_id[1], t, 0, <<v>>, "panic")

\* the ControlPing { client_index: t.get_client_index(), context: 0 }
ControlPing(t) ==
    [type |-> "RawControlPing",
     f |-> [client_index |-> t.client_index, context |-> U32Of(0, 0)]]

\* the buffers the two write_all calls wrote in full: both, the first, none
WritesOfMany(t, v, c) ==
    CASE t.write = "complete" -> <<v, c>>
      [] t.write = "short" -> <<v>>
      [] OTHER -> <<>>

\* send_recv_many::<T, TR>(m, t): the four ids by get_msg_index(..).unwrap(),
\* write_all of the request, write_all of the control ping, then the loop
send_recv_many(m, TR, t) ==
    LET control_ping_id == get_msg_index(t, "control_ping_51077d14")
        control_ping_id_reply == get_msg_index(t, "control_ping_reply_f6b0b8ca")
        vl_msg_id == get_msg_index(t, get_message_name_and_crc(m.type))
        reply_vl_msg_id == get_msg_index(t, get_message_name_and_crc(TR))
        v == BE16(vl_msg_id[1]) \o EncodeMsg(m)
        c == BE16(control_ping_id[1]) \o EncodeMsg(ControlPing(t))
    IN  IF control_ping_id = <<>> \/ control_ping_id_reply = <<>>
               \/ vl_msg_id = <<>> \/ reply_vl_msg_id = <<>>
        THEN ReqResult("panic", <<>>, 0, <<>>)
        ELSE IF t.write # "complete" THEN ReqResult("err", <<>>, 0, WritesOfMany(t, v, c))
        ELSE RecvManyLoop(TR, control_ping_id_reply[1], reply_vl_msg_id[1], t, 0, <<>>,
                          <<v, c>>, "err")

\* send_bulk_msg(name, m, t, reply_name): as send_recv_many, with a panic
\* where that returns an Err
send_bulk_msg(m, TR, t) ==
    LET control_ping_id == get_msg_index(t, "control_ping_51077d14")
        control_ping_id_reply == get_msg_index(t, "control_ping_reply_f6b0b8ca")
        vl_msg_id == get_msg_index(t, get_message_name_and_crc(m.type))
        reply_vl_msg_id == get_msg_index(t, get_message_name_and_crc(TR))
        v == BE16(vl_msg_id[1]) \o EncodeMsg(m)
        c == BE16(control_ping_id[1]) \o EncodeMsg(ControlPing(t))
    IN  IF control_ping_id = <<>> \/ control_ping_id_reply = <<>>
               \/ vl_msg_id = <<>> \/ reply_vl_msg_id = <<>>
        THEN ReqResult("panic", <<>>, 0, <<>>)
        ELSE IF t.write # "complete" THEN ReqResult("panic", <<>>, 0, WritesOfMany(t, v, c))
        ELSE RecvManyLoop(TR, control_ping_id_reply[1], reply_vl_msg_id[1], t, 0, <<>>,
                          <<v, c>>, "panic")

\* the transports of the model know no name, the control ping alone, or the
\* control ping and its reply
ReqResolvers ==
    {r \in Resolvers : r["control_ping_51077d14"] \in {<<>>, <<261>>}}

\* a message of the type with the context given
SampleMsg(type, context) ==
    IF type = "RawControlPing"
    THEN [type |-> type, f |-> [client_index |-> U32Of(0, 0), context |-> context]]
    ELSE [type |-> type, f |-> [context |-> context, retval |-> 0,
                                client_index |-> U32Of(0, 0), vpe_pid |-> U32Of(0, 7)]]

\* what the transport may return from one read while a helper waits for TR
Incoming(TR) ==
    {[ok |-> TRUE, msg_id |-> id, data |-> d] :
         id \in {261, 262},
         d \in {EncodeMsg(SampleMsg(TR, c)) : c \in U32Values} \cup {<<9>>}}
    \cup {[ok |-> TRUE, msg_id |-> 300, data |-> EncodeMsg(SampleMsg(TR, U32Of(0, 7)))],
          [ok |-> FALSE, msg_id |-> 0, data |-> <<>>]}

\* the sequences over a set of length up to n
SeqsUpTo(S, n) == UNION {[1..k -> S] : k \in 0..n}

\* one call of a helper on a transport
ReqInit ==
    /\ GenIdle
    /\ ClientIdle
    /\ ConnIdle
    /\ \E TR \in FixedTypes :
           call \in [fn : ReqFns,
                     m : {SampleMsg("RawControlPing", U32Of(0, 7))},
                     TR : {TR},
                     t : [known : ReqResolvers,
                          write : {"complete", "short", "err"},
                          incoming : SeqsUpTo(Incoming(TR), MaxIncoming),
                          client_index : {U32Of(0, 7)}]]
    /\ ret = <<>>

CallSendRecvOne ==
    /\ call.fn = "send_recv_one"
    /\ ret = <<>>
    /\ ret' = <<send_recv_one(call.m, call.TR, call.t)>>
    /\ UNCHANGED <<call, genVars, clientVars, connVars>>

CallSendRecvMany ==
    /\ call.fn = "send_recv_many"
    /\ ret = <<>>
    /\ ret' = <<send_recv_many(call.m, call.TR, call.t)>>
    /\ UNCHANGED <<call, genVars, clientVars, connVars>>

CallSendRecvMsg ==
    /\ call.fn = "send_recv_msg"
    /\ ret = <<>>
    /\ ret' = <<send_recv_msg(call.m, call.TR, call.t)>>
    /\ UNCHANGED <<call, genVars, clientVars, connVars>>

CallSendBulkMsg ==
    /\ call.fn = "send_bulk_msg"
    /\ ret = <<>>
    /\ ret' = <<send_bulk_msg(call.m, call.TR, call.t)>>
    /\ UNCHANGED <<call, genVars, clientVars, connVars>>

ReqNext == CallSendRecvOne \/ CallSendRecvMany \/ CallSendRecvMsg \/ CallSendBulkMsg

SpecReq == ReqInit /\ [][ReqNext]_vars

-----------------------------------------------------------------------------
(* vpp-api-transport: the context counter of a Client.  The three clients   *)
(* (afunix::client, shmem::blocking, shmem::non_blocking) hold the same     *)
(* field context_id: AtomicU32, built as AtomicU32::new(1), and the same    *)
(* get_next_context and the same first two statements of send.              *)

ClientKinds == {"afunix", "shmem_blocking", "shmem_non_blocking"}

\* u32 addition that wraps around at 2^32, as AtomicU32::fetch_add does
WrappingAdd(a, b) ==
    U32Of((a.hi + b.hi + (a.lo + b.lo) \div Half) % Half, (a.lo + b.lo) % Half)

\* self.context_id.fetch_add(1, AcqRel): returns the value before the
\* addition; value is what the call returns, next the counter after it
get_next_context(context_id) ==
    [value |-> context_id, next |-> WrappingAdd(context_id, U32Of(0, 1))]

\* the counter after n calls of get_next_context, n given as a u32
AfterCalls(context_id, n) == WrappingAdd(context_id, n)

\* the lengths of the runs of sends taken in one step: 2^32 - 3 sends
BurstLens == {U32Of(Half - 1, Half - 3)}

\* the sockclnt_create replies VPP may answer the connect of afunix with;
\* the shmem clients read none
ConnectReplies(kind) ==
    IF kind = "afunix"
    THEN {<<[type |-> "MsgSockClntCreateReplyHdr", f |-> f]>> :
              f \in Messages("MsgSockClntCreateReplyHdr")}
    ELSE {<<>>}

\* a HashMap is a function from its keys to their values; <<>> is the empty
\* one.  An insert that keeps the value a key already has
HashInsert_KeepFirst(map, k, v) ==
    [n \in DOMAIN map \cup {k} |-> IF n \in DOMAIN map THEN map[n] ELSE v]

\* HashMap::insert(k, v): the value of a key already there is replaced
HashInsert(map, k, v) ==
    [n \in DOMAIN map \cup {k} |-> IF n = k THEN v ELSE map[n]]

\* for msg_entry in reply.message_table.0.iter(): insert(name, index), the
\* name of an entry being the String its name.to_string() gives
RECURSIVE InsertTable(_, _)
InsertTable(message_name_to_id, message_table) ==
    IF message_table = <<>> THEN message_name_to_id
    ELSE InsertTable(HashInsert(message_name_to_id, Head(message_table).name,
                                Head(message_table).index),
                     Tail(message_table))

\* the message_name_to_id that afunix connect moves into the Client's
\* resolver: the ids of sockclnt_create and sockclnt_create_reply first,
\* then the entries of the reply's table; the shmem clients hold no map
connect_resolver(kind, reply) ==
    IF kind = "afunix"
    THEN InsertTable(
             HashInsert(HashInsert(<<>>, get_message_name_and_crc("MsgSockClntCreate"),
                                   get_message_id("MsgSockClntCreate")),
                        get_message_name_and_crc("MsgSockClntCreateReplyHdr"),
                        get_message_id("MsgSockClntCreateReplyHdr")),
             reply[1].f.message_table)
    ELSE <<>>

\* Client::get_message_index(name): the resolver's answer, Ok(id) or Err
get_message_index(c, name) ==
    IF name \in DOMAIN c.resolver
    THEN [ok |-> TRUE, value |-> c.resolver[name]]
    ELSE [ok |-> FALSE, value |-> 0]

\* a connect that takes the reply's field client_index for the Client
connect_client_index_ReplyClientIndex(kind, reply) ==
    IF kind = "afunix" THEN reply[1].f.client_index ELSE U32Of(0, 0)

\* the client_index connect gives the Client: let client_index = reply.index
\* in afunix, client_index: 0 in shmem::blocking and shmem::non_blocking
connect_client_index(kind, reply) ==
    IF kind = "afunix" THEN reply[1].f.index ELSE U32Of(0, 0)

\* Client::connect returned Ok(Client { context_id: AtomicU32::new(1), .. })
ClientInit ==
    /\ MapIdle
    /\ GenIdle
    /\ \E kind \in ClientKinds : \E reply \in ConnectReplies(kind) :
           /\ connect_reply = reply
           /\ client = [kind |-> kind,
                        client_index |-> connect_client_index(kind, reply),
                        context_id |-> U32Of(0, 1), bursts |-> 0,
                        resolver |-> connect_resolver(kind, reply)]
    /\ sent = <<>>
    /\ replies = <<>>
    /\ msg = <<>>
    /\ msg_log = <<>>
    /\ inbox = <<>>
    /\ calls = <<>>
    /\ vpp = [answered |-> 0, events |-> 0, callback |-> <<>>]
    /\ lock = 0
    /\ tasks = <<>>

\* the messages the model hands to send: a request with both stamped fields
\* and a message without a client_index field
SendArgs ==
    {[type |-> "RawControlPing", f |-> [client_index |-> U32Of(0, 0), context |-> U32Of(0, 0)]],
     [type |-> "MsgSockClntCreate", f |-> [context |-> U32Of(0, 0), name |-> <<>>]]}

\* Client::send: msg.set_client_index(self.client_index),
\* msg.set_context(self.get_next_context()), then the message is written
ClientSend ==
    /\ client.kind \in ClientKinds
    /\ Len(sent) < MaxSends
    /\ \E m \in SendArgs :
           LET ctx == get_next_context(client.context_id)
               indexed == set_client_index(m, client.client_index)
           IN  /\ client' = [client EXCEPT !.context_id = ctx.next]
               /\ sent' = Append(sent, set_context(indexed, ctx.value))
    /\ UNCHANGED <<replies, mapVars, genVars, connVars>>

\* a run of n calls of Client::send, one after the other, whose messages
\* are not kept in sent
ClientSendMany ==
    /\ client.kind \in ClientKinds
    /\ client.bursts < MaxBursts
    /\ \E n \in BurstLens :
           client' = [client EXCEPT !.context_id = AfterCalls(client.context_id, n),
                                    !.bursts = client.bursts + 1]
    /\ UNCHANGED <<sent, replies, mapVars, genVars, connVars>>

\* Client::receive of the reply to the oldest request of sent without one:
\* VPP copies the request's context into its reply
ClientReceive ==
    /\ client.kind \in ClientKinds
    /\ Len(replies) < Len(sent)
    /\ replies' = Append(replies, sent[Len(replies) + 1].f.context)
    /\ UNCHANGED <<client, sent, mapVars, genVars, connVars>>

ClientNext == ClientSend \/ ClientSendMany \/ ClientReceive

SpecClient == ClientInit /\ [][ClientNext]_vars

-----------------------------------------------------------------------------
(* afunix/client.rs: the message ids of a connected Client.  connect_reply  *)
(* is the sockclnt_create_reply the connect read; ret holds the name and    *)
(* the result of the last get_message_index call.                           *)

\* the names the tables of the model list, and the names asked for
TableNames == {"sockclnt_create_455fb9c4", "sockclnt_create_reply_35166268",
               "control_ping_51077d14"}
AskedNames == TableNames \cup {"cli_inband_f8377302"}

\* the sockclnt_create replies of the model: tables of up to MaxTable entries
IndexReplies ==
    {<<[type |-> "MsgSockClntCreateReplyHdr",
        f |-> [client_index |-> U32Of(0, 0), context |-> U32Of(0, 0), response |-> 0,
               index |-> U32Of(0, 7), count |-> Len(t), message_table |-> t]]>> :
         t \in SeqsUpTo([index : {17, 20}, name : TableNames], MaxTable)}

\* Client::connect of afunix returned Ok(Client)
IndexInit ==
    /\ MapIdle
    /\ GenIdle
    /\ \E reply \in IndexReplies :
           /\ connect_reply = reply
           /\ client = [kind |-> "afunix",
                        client_index |-> connect_client_index("afunix", reply),
                        context_id |-> U32Of(0, 1), bursts |-> 0,
                        resolver |-> connect_resolver("afunix", reply)]
    /\ sent = <<>>
    /\ replies = <<>>
    /\ msg = <<>>
    /\ msg_log = <<>>
    /\ inbox = <<>>
    /\ calls = <<>>
    /\ vpp = [answered |-> 0, events |-> 0, callback |-> <<>>]
    /\ lock = 0
    /\ tasks = <<>>

\* client.get_message_index(&name)
GetMessageIndex ==
    /\ \E name \in AskedNames :
           ret' = <<[name |-> name, result |-> get_message_index(client, name)]>>
    /\ UNCHANGED <<call, genVars, clientVars, connVars>>

IndexNext == GetMessageIndex \/ ClientSend

SpecIndex == IndexInit /\ [][IndexNext]_vars

-----------------------------------------------------------------------------
(* vpp-api-transport: one connected Client and VPP at the other end.  The   *)
(* inbox is what VPP wrote and no receive took yet: for afunix the bytes of *)
(* the socket, for the shmem clients the messages one by one (what vac_read *)
(* hands out, or the global queue filled by vac_write_callback).  The       *)
(* methods take &mut self, so the calls on a Client follow one another.     *)

\* the resolver of a connected Client
ConnResolver ==
    [n \in MsgNames |-> IF n = "control_ping_51077d14" THEN <<261>>
                        ELSE IF n = "control_ping_reply_f6b0b8ca" THEN <<262>>
                        ELSE <<>>]

\* the reply that connect of afunix read
ConnReply ==
    <<[type |-> "MsgSockClntCreateReplyHdr",
       f |-> [client_index |-> U32Of(0, 0), context |-> U32Of(0, 0), response |-> 0,
              index |-> U32Of(0, 7), count |-> 0, message_table |-> <<>>]]>>

\* the clients frame their messages with the socket header in afunix only
HasSocketHeader(kind) == kind = "afunix"

\* the message send_rcv, send and send_control_ping are called with
PingDefault ==
    [type |-> "RawControlPing", f |-> [client_index |-> U32Of(0, 0), context |-> U32Of(0, 0)]]

\* the frame of a message VPP sends on its own, under an id no call expects
EventFrame == BE16(300) \o <<0, 0, 0, 0>>

\* VPP's answer to a control ping: the request's context and client_index
PingReply(request) ==
    [type |-> "RawControlPingReply",
     f |-> [context |-> request.f.context, retval |-> 0,
            client_index |-> request.f.client_index, vpe_pid |-> U32Of(0, 7)]]

\* the inbox after VPP wrote the frame
Deliver(kind, box, frame) ==
    IF HasSocketHeader(kind) THEN box \o write_frame(frame, TRUE)
    ELSE Append(box, frame)

ConnInit ==
    /\ MapIdle
    /\ GenIdle
    /\ \E kind \in ClientKinds :
           /\ connect_reply = IF kind = "afunix" THEN ConnReply ELSE <<>>
           /\ client = [kind |-> kind,
                        client_index |-> connect_client_index(kind, ConnReply),
                        context_id |-> U32Of(0, 1), bursts |-> 0,
                        resolver |-> connect_resolver(kind, ConnReply)]
    /\ sent = <<>>
    /\ replies = <<>>
    /\ msg = <<>>
    /\ msg_log = <<>>
    /\ inbox = <<>>
    /\ calls = <<>>
    /\ vpp = [answered |-> 0, events |-> 0, callback |-> <<>>]
    /\ lock = 0
    /\ tasks = <<>>

\* a send_rcv has sent its request and has not received yet
InSendRcv == calls # <<>> /\ calls[Len(calls)].state = "sent"

\* Client::send of the three clients: stamp the message, write it
Send(fn, state) ==
    LET ctx == get_next_context(client.context_id)
        indexed == set_client_index(PingDefault, client.client_index)
        stamped == set_context(indexed, ctx.value)
    IN  /\ write_object(stamped, ConnResolver, HasSocketHeader(client.kind)) # <<>>
        /\ client' = [client EXCEPT !.context_id = ctx.next]
        /\ sent' = Append(sent, stamped)
        /\ calls' = Append(calls, [fn |-> fn, state |-> state,
                                   request |-> ctx.value, reply |-> <<>>])

\* Client::receive::<RawControlPingReply> of the three clients: [result,
\* box], the result of read_object and the inbox left.  afunix reads the
\* socket; shmem::blocking takes one message from vac_read, which fails when
\* none came within the timeout; shmem::non_blocking takes one message from
\* the queue.
Receive(kind, box) ==
    CASE kind = "afunix" ->
             LET r == read_object(box, ConnResolver, "RawControlPingReply", TRUE)
             IN  [result |-> r, box |-> r.rest]
      [] kind = "shmem_blocking" /\ box = <<>> ->
             [result |-> ReadErr("vac_read returned -5", <<>>), box |-> box]
      [] OTHER ->
             [result |-> read_object(Head(box), ConnResolver, "RawControlPingReply", FALSE),
              box |-> Tail(box)]

\* the socket read and the queue's recv wait while nothing has arrived
CanReceive(kind, box) == kind = "shmem_blocking" \/ box # <<>>

\* the public send (afunix) and send_control_ping (afunix, shmem::blocking)
ConnSend ==
    /\ client.kind \in {"afunix", "shmem_blocking"}
    /\ ~InSendRcv
    /\ Len(calls) < MaxCalls
    /\ Send("send", "ok")
    /\ UNCHANGED <<replies, msg, msg_log, connect_reply, inbox, vpp, lock, tasks,
                   mapVars, genVars>>

\* the public receive (afunix) and rcv_control_ping_reply (afunix,
\* shmem::blocking)
ConnReceive ==
    /\ client.kind \in {"afunix", "shmem_blocking"}
    /\ ~InSendRcv
    /\ Len(calls) < MaxCalls
    /\ CanReceive(client.kind, inbox)
    /\ LET rcv == Receive(client.kind, inbox)
       IN  /\ inbox' = rcv.box
           /\ calls' = Append(calls, [fn |-> "receive",
                                      state |-> IF rcv.result.ok THEN "ok" ELSE "err",
                                      request |-> U32Of(0, 0),
                                      reply |-> rcv.result.value])
    /\ UNCHANGED <<client, sent, replies, msg, msg_log, connect_reply, vpp, lock, tasks,
                   mapVars, genVars>>

\* send_rcv: self.send(msg).await?
ConnSendRcvSend ==
    /\ client.kind \in ClientKinds
    /\ ~InSendRcv
    /\ Len(calls) < MaxCalls
    /\ Send("send_rcv", "sent")
    /\ UNCHANGED <<replies, msg, msg_log, connect_reply, inbox, vpp, lock, tasks,
                   mapVars, genVars>>

\* send_rcv: self.receive().await, whose result the call returns
ConnSendRcvReceive ==
    /\ InSendRcv
    /\ CanReceive(client.kind, inbox)
    /\ LET rcv == Receive(client.kind, inbox)
       IN  /\ inbox' = rcv.box
           /\ calls' = [calls EXCEPT ![Len(calls)] =
                            [@ EXCEPT !.state = IF rcv.result.ok THEN "ok" ELSE "err",
                                      !.reply = rcv.result.value]]
    /\ UNCHANGED <<client, sent, replies, msg, msg_log, connect_reply, vpp, lock, tasks,
                   mapVars, genVars>>

\* VPP answers the oldest request it has not answered
VppReply ==
    /\ client.kind \in ClientKinds
    /\ vpp.answered < Len(sent)
    /\ LET frame == write_object(PingReply(sent[vpp.answered + 1]), ConnResolver, FALSE)
       IN  inbox' = Deliver(client.kind, inbox, frame)
    /\ vpp' = [vpp EXCEPT !.answered = vpp.answered + 1]
    /\ UNCHANGED <<client, sent, replies, msg, msg_log, connect_reply, calls, lock, tasks,
                   mapVars, genVars>>

\* VPP sends a message no request asked for
VppEvent ==
    /\ client.kind \in ClientKinds
    /\ vpp.events < MaxEvents
    /\ inbox' = Deliver(client.kind, inbox, EventFrame)
    /\ vpp' = [vpp EXCEPT !.events = vpp.events + 1]
    /\ UNCHANGED <<client, sent, replies, msg, msg_log, connect_reply, calls, lock, tasks,
                   mapVars, genVars>>

ConnNext ==
    \/ ConnSend
    \/ ConnReceive
    \/ ConnSendRcvSend
    \/ ConnSendRcvReceive
    \/ VppReply
    \/ VppEvent

SpecConn == ConnInit /\ [][ConnNext]_vars

-----------------------------------------------------------------------------
(* shmem::non_blocking: tasks that call send_rcv, each on a Client of its   *)
(* own.  The Clients share the process-wide queue (static QUEUE) that       *)
(* vac_write_callback fills, and the tokio Mutex around its receiver.       *)

Tasks == 1..MaxTasks

\* a lock that never makes a caller wait
LockFree_Always(holder) == TRUE

\* receiver.lock().await returns once no guard of the mutex is alive
LockFree(holder) == holder = 0

\* the task is in send_rcv and holds the guard
InWindow(t) == tasks[t].pc \in {"locked", "sent"}

LockInit ==
    /\ MapIdle
    /\ GenIdle
    /\ client = [kind |-> "shmem_non_blocking",
                 client_index |-> connect_client_index("shmem_non_blocking", <<>>),
                 context_id |-> U32Of(0, 1), bursts |-> 0,
                 resolver |-> connect_resolver("shmem_non_blocking", <<>>)]
    /\ sent = <<>>
    /\ replies = <<>>
    /\ msg = <<>>
    /\ msg_log = <<>>
    /\ connect_reply = <<>>
    /\ inbox = <<>>
    /\ calls = <<>>
    /\ vpp = [answered |-> 0, events |-> 0, callback |-> <<>>]
    /\ lock = 0
    /\ tasks = [t \in Tasks |-> [pc |-> "idle", context_id |-> U32Of(0, 1),
                                 rounds |-> 0, last |-> "none"]]

\* send_rcv: let receiver = get_global_receiver()?;
\*           let mut receiver_guard = receiver.lock().await;
SendRcvLock(t) ==
    /\ tasks[t].pc = "idle"
    /\ tasks[t].rounds < MaxRounds
    /\ LockFree(lock)
    /\ lock' = t
    /\ tasks' = [tasks EXCEPT ![t].pc = "locked", ![t].rounds = @ + 1]
    /\ UNCHANGED <<client, sent, replies, msg, msg_log, connect_reply, inbox, calls, vpp,
                   mapVars, genVars>>

\* send_rcv: self.send(msg).await?  The message is stamped and handed to
\* vac_write; when that fails the call returns the Err and the guard is
\* dropped with it.
SendRcvSend(t) ==
    /\ tasks[t].pc = "locked"
    /\ \E written \in BOOLEAN :
           LET ctx == get_next_context(tasks[t].context_id)
               indexed == set_client_index(PingDefault, client.client_index)
               stamped == set_context(indexed, ctx.value)
           IN  IF written /\ write_object(stamped, ConnResolver, FALSE) # <<>>
               THEN /\ sent' = Append(sent, stamped)
                    /\ tasks' = [tasks EXCEPT ![t].pc = "sent",
                                              ![t].context_id = ctx.next]
                    /\ lock' = lock
               ELSE /\ sent' = sent
                    /\ tasks' = [tasks EXCEPT ![t].pc = "idle", ![t].last = "err",
                                              ![t].context_id = ctx.next]
                    /\ lock' = 0
    /\ UNCHANGED <<client, replies, msg, msg_log, connect_reply, inbox, calls, vpp,
                   mapVars, genVars>>

\* send_rcv: self.receive(&mut receiver_guard).await, whose result the call
\* returns; the guard is dropped at the return
SendRcvReceive(t) ==
    /\ tasks[t].pc = "sent"
    /\ CanReceive(client.kind, inbox)
    /\ LET rcv == Receive(client.kind, inbox)
       IN  /\ inbox' = rcv.box
           /\ tasks' = [tasks EXCEPT ![t].pc = "idle",
                                     ![t].last = IF rcv.result.ok THEN "ok" ELSE "err"]
    /\ lock' = 0
    /\ UNCHANGED <<client, sent, replies, msg, msg_log, connect_reply, calls, vpp,
                   mapVars, genVars>>

LockNext ==
    \/ \E t \in Tasks : SendRcvLock(t)
    \/ \E t \in Tasks : SendRcvSend(t)
    \/ \E t \in Tasks : SendRcvReceive(t)
    \/ VppReply
    \/ VppEvent

SpecLock == LockInit /\ [][LockNext]_vars

-----------------------------------------------------------------------------
(* shmem::non_blocking: the global queue and vac_write_callback, which the  *)
(* VAC layer calls on its own thread, one call after the other, for every   *)
(* message that arrives.                                                    *)

\* mpsc::channel::<Vec<u8>>(16) of init_global_queue
QueueCapacity == 16

\* the n-th message the VAC layer delivers
Delivery(n) == BE16(300) \o U32Bytes(U32Of(0, n))

\* the channel has a free slot: blocking_send waits until it has one
HasCapacity(queue) == Len(queue) < QueueCapacity

\* connect returned: the queue is initialised and empty, the callback is
\* registered
QueueInit ==
    /\ MapIdle
    /\ GenIdle
    /\ client = [kind |-> "shmem_non_blocking",
                 client_index |-> connect_client_index("shmem_non_blocking", <<>>),
                 context_id |-> U32Of(0, 1), bursts |-> 0,
                 resolver |-> connect_resolver("shmem_non_blocking", <<>>)]
    /\ sent = <<>>
    /\ replies = <<>>
    /\ msg = <<>>
    /\ msg_log = <<>>
    /\ connect_reply = <<>>
    /\ inbox = <<>>
    /\ calls = <<>>
    /\ vpp = [answered |-> 0, events |-> 0, callback |-> <<>>]
    /\ lock = 0
    /\ tasks = <<>>

\* the VAC layer calls vac_write_callback(raw_data, len): the message is
\* copied into a Vec
VacWriteCallbackEnter ==
    /\ vpp.callback = <<>>
    /\ vpp.events < MaxDeliveries
    /\ vpp' = [vpp EXCEPT !.events = vpp.events + 1,
                          !.callback = <<Delivery(vpp.events + 1)>>]
    /\ UNCHANGED <<client, sent, replies, msg, msg_log, connect_reply, inbox, calls,
                   lock, tasks, mapVars, genVars>>

\* vac_write_callback: sender.blocking_send(msg).ok(), vac_free, return.
\* blocking_send returns once the message is in the channel; the receiver
\* lives in the static QUEUE, so the channel is never closed.
VacWriteCallbackSend ==
    /\ vpp.callback # <<>>
    /\ HasCapacity(inbox)
    /\ inbox' = Append(inbox, vpp.callback[1])
    /\ vpp' = [vpp EXCEPT !.callback = <<>>]
    /\ UNCHANGED <<client, sent, replies, msg, msg_log, connect_reply, calls,
                   lock, tasks, mapVars, genVars>>

\* receiver.recv().await of the receive of some send_rcv call
QueueRecv ==
    /\ inbox # <<>>
    /\ inbox' = Tail(inbox)
    /\ vpp' = [vpp EXCEPT !.answered = vpp.answered + 1]
    /\ UNCHANGED <<client, sent, replies, msg, msg_log, connect_reply, calls,
                   lock, tasks, mapVars, genVars>>

QueueNext == VacWriteCallbackEnter \/ VacWriteCallbackSend \/ QueueRecv

\* the thread of the VAC layer runs: a callback that can go on does; no
\* send_rcv call has to be made
SpecQueue == QueueInit /\ [][QueueNext]_vars /\ WF_vars(VacWriteCallbackSend)

-----------------------------------------------------------------------------
(* Properties of the sort and of the driver, checked under Spec.            *)

NonDecreasing(v) ==
    \A i, j \in 1..Len(v) : i < j => v[i].file.imports <= v[j].file.imports

IsOrderedPass(p) == p \in {"binding", "package"}

\* the file a gen_code call of parse_type_tree was made on
EmittedFile(c) == EntryAt(tree, c.name)

\* C1: merge_sort returns its vector in non-decreasing order of
\* imports.len(), and in the binding and package passes of parse_type_tree
\* a types file with fewer imports is emitted before every types file with
\* more imports (A with zero imports before B with one), whatever the load
\* order.
C1_SortedByImportCount ==
    /\ NonDecreasing(sort_out)
    /\ entry_fn = "parse_type_tree" =>
         \A i, j \in 1..Len(emitted) :
             ( /\ IsOrderedPass(emitted[i].pass)
               /\ emitted[i].pass = emitted[j].pass
               /\ EmittedFile(emitted[i]).types
               /\ EmittedFile(emitted[j]).types
               /\ EmittedFile(emitted[i]).imports < EmittedFile(emitted[j]).imports )
             => i < j

\* A run of parse_type_tree that loaded a types file with one import before
\* a types file with no import, and emitted them the other way round.
C1_Witness ==
    /\ entry_fn = "parse_type_tree"
    /\ pc = "bound"
    /\ opts.create_binding
    /\ Len(sort_in) = 2
    /\ sort_in[1].file.imports = 1
    /\ sort_in[2].file.imports = 0
    /\ sort_out = <<sort_in[2], sort_in[1]>>
    /\ [pass |-> "binding", name |-> sort_in[2].name] = emitted[Len(emitted) - 1]
    /\ [pass |-> "binding", name |-> sort_in[1].name] = emitted[Len(emitted)]

PositionIn(v, name) == CHOOSE k \in 1..Len(v) : v[k].name = name

SortReturned == sort_out # <<>> /\ Len(sort_out) = Len(sort_in)

\* C2: merge_sort is stable: two files with equal import counts keep in the
\* output the relative order they have in the input.
C2_StableSort ==
    SortReturned =>
        \A i, j \in 1..Len(sort_in) :
            (i < j /\ sort_in[i].file.imports = sort_in[j].file.imports)
            => PositionIn(sort_out, sort_in[i].name) < PositionIn(sort_out, sort_in[j].name)

PassNames(p) ==
    LET cs == SelectSeq(emitted, LAMBDA c : c.pass = p)
    IN  [i \in 1..Len(cs) |-> cs[i].name]

NamesOf(fs) == [i \in 1..Len(fs) |-> fs[i].name]

\* the binding pass is over: it ran to its end, or the run aborted in it
BindingOver ==
    /\ entry_fn = "parse_type_tree"
    /\ opts.create_binding
    /\ \/ pc \in {"bound", "done"}
       \/ pc = "failed" /\ failure[1].at \in {"generated", "bound"}

\* the gen_code loop of the package pass is over: it ran to its end, or the
\* run aborted in it
PackageOver ==
    /\ entry_fn = "parse_type_tree"
    /\ opts.create_package
    /\ \/ pc = "done"
       \/ pc = "failed" /\ failure[1].at = "bound" /\ failure[1].what \in SortAbortKinds

EmitsEveryFileOnce(p) ==
    LET names == PassNames(p)
    IN  /\ Len(names) = Len(api_files)
        /\ \A i \in 1..Len(api_files) : \E j \in 1..Len(names) : names[j] = api_files[i].name
        /\ \A i, j \in 1..Len(names) :
               (i < j /\ EntryAt(tree, names[j]).types) => EntryAt(tree, names[i]).types
        /\ SelectSeq(names, LAMBDA n : ~EntryAt(tree, n).types) = NamesOf(NonTypesOf(api_files))
        /\ SortReturned =>
               SelectSeq(names, LAMBDA n : EntryAt(tree, n).types) = NamesOf(sort_out)

\* C3: with create_binding set, and likewise in the create_package pass,
\* gen_code is called exactly once per loaded file in that pass: first the
\* types files in merge_sort order, then the other files in load order.
C3_EveryFileEmittedOncePerPass ==
    /\ BindingOver => EmitsEveryFileOnce("binding")
    /\ PackageOver => EmitsEveryFileOnce("package")

\* C4 as stated: with generate_code false the emitter is never invoked,
\* whatever create_binding and create_package are.
C4_NoEmitterWithoutGenerateCode ==
    (entry_fn \in {"parse_type_tree", "parse_type_file"} /\ ~opts.generate_code)
    => emitted = <<>>

\* C4 as amended: with generate_code false neither the generate pass of
\* parse_type_tree nor parse_type_file invokes the emitter; the binding and
\* package passes invoke it whether or not generate_code is set, so no
\* emitter call is made at all only when create_binding and create_package
\* are false too.
C4_GenerateCodeGatesGeneratePass ==
    (entry_fn \in {"parse_type_tree", "parse_type_file"} /\ ~opts.generate_code)
    => /\ \A i \in 1..Len(emitted) : IsOrderedPass(emitted[i].pass)
       /\ (~opts.create_binding /\ ~opts.create_package) => emitted = <<>>
       /\ (pc = "done" /\ opts.create_binding) =>
              Len(PassNames("binding")) = Len(api_files)

\* A finished run of parse_type_tree without generate_code that loaded
\* files and emitted them in its binding pass only.
C4_Witness ==
    /\ entry_fn = "parse_type_tree"
    /\ pc = "done"
    /\ ~opts.generate_code
    /\ opts.create_binding
    /\ ~opts.create_package
    /\ Len(api_files) = 2
    /\ Len(emitted) = 2

-----------------------------------------------------------------------------
(* Properties of the loader, checked under SpecTree.                        *)

\* the paths of all entries below the directory t, which is at path prefix
RECURSIVE PathsBelow(_, _)
PathsBelow(t, prefix) ==
    UNION {
        LET p == Append(prefix, i)
        IN  {p} \cup (IF t.ch[i].k = "dir" THEN PathsBelow(t.ch[i], p) ELSE {})
        : i \in 1..Len(t.ch)}

AllPaths == IF tree.k = "dir" THEN PathsBelow(tree, <<>>) ELSE {}

PathsOfKind(ks) == {p \in AllPaths : EntryAt(tree, p).k \in ks}

\* the loop of some active call is past the entry at path p, or the walk
\* has returned
Visited(p) ==
    \/ pc = "returned"
    \/ /\ pc \in {"walk", "failed"}
       /\ \E n \in 1..Len(stack) :
            /\ Len(stack[n].dir) < Len(p)
            /\ Take(p, Len(stack[n].dir)) = stack[n].dir
            /\ \A m \in (n + 1)..Len(stack) :
                   ~(Len(stack[m].dir) < Len(p) /\ Take(p, Len(stack[m].dir)) = stack[m].dir)
            /\ p[Len(stack[n].dir) + 1] < stack[n].idx

LoadedNames == {api_files[i].name : i \in 1..Len(api_files)}
DiagPaths == {diags[i].path : i \in 1..Len(diags)}

\* C5: parse_api_tree never aborts on a file that fails to read or parse:
\* the map holds exactly the well-formed regular files the walk has gone
\* past (all of them once the walk returns), each malformed or unreadable
\* file the walk has gone past has its diagnostic and nothing else has, and
\* a run that aborts does not abort at a malformed or unreadable file.
C5_MalformedFilesAreSkipped ==
    entry_fn = "parse_api_tree" =>
      /\ LoadedNames = {p \in PathsOfKind({"good"}) : Visited(p)}
      /\ Len(api_files) = Cardinality(LoadedNames)
      /\ DiagPaths = {p \in PathsOfKind({"malformed", "unreadable"}) : Visited(p)}
      /\ Len(diags) = Cardinality(DiagPaths)
      /\ pc = "failed" => EntryAt(tree, failure[1].path).k \notin {"malformed", "unreadable"}

\* The walk of a directory with one malformed file followed by two
\* well-formed files has returned with a map of size 2 and one diagnostic.
C5_Witness ==
    /\ entry_fn = "parse_api_tree"
    /\ pc = "returned"
    /\ Len(tree.ch) = 3
    /\ tree.ch[1].k = "malformed"
    /\ tree.ch[2].k = "good"
    /\ tree.ch[3].k = "good"
    /\ Len(api_files) = 2
    /\ diags = <<[what |-> "error_loading", path |-> <<1>>]>>

-----------------------------------------------------------------------------
(* Properties of the mappers, checked under SpecMapper.                     *)

Returned(fn) == call.fn = fn /\ ret # <<>>

\* s without one leading "vl_api_" and one trailing "_t"
StripOnce(s) == SubSeq(s, Len(VlApi) + 1, Len(s) - Len(SufT))

\* C6: for a name that begins with "vl_api_" and ends with "_t", get_type
\* removes exactly one occurrence of the prefix and one of the suffix and
\* upper-camel-cases the remainder; "string" gives "String"; a token that
\* does not begin with the prefix is returned unchanged.
C6_GetTypeStripsOnePrefixAndSuffix ==
    Returned("get_type") =>
        LET a == call.arg
        IN  IF StartsWith(a, VlApi)
            THEN (EndsWith(a, SufT) /\ Len(a) >= Len(VlApi) + Len(SufT))
                 => ret[1] = camelize_ident(StripOnce(a))
            ELSE IF a = StrString
            THEN ret[1] = <<"S", "t", "r", "i", "n", "g">>
            ELSE ret[1] = a

\* C7: get_ident maps "type" to "typ" and "match" to "mach", and returns
\* every other name that has no leading underscore unchanged.
C7_GetIdentReservedAndPlain ==
    Returned("get_ident") =>
        LET a == call.arg
        IN  /\ a = StrType => ret[1] = <<"t", "y", "p">>
            /\ a = StrMatch => ret[1] = <<"m", "a", "c", "h">>
            /\ (a \notin {StrType, StrMatch} /\ ~StartsWith(a, Underscore)) => ret[1] = a

\* get_ident has returned "mach" for "match".
C7_Witness ==
    /\ Returned("get_ident")
    /\ call.arg = StrMatch
    /\ ret = <<(<<"m", "a", "c", "h">>)>>

\* C8: for a name other than "type" and "match" with at least one leading
\* underscore, get_ident returns the name without its first character.
C8_GetIdentStripsOneUnderscore ==
    ( /\ Returned("get_ident")
      /\ call.arg \notin {StrType, StrMatch}
      /\ StartsWith(call.arg, Underscore) )
    => ret[1] = Tail(call.arg)

IsStringWithSize(f) == f.ctype = StrString /\ f.maybe_size # <<>>

\* C9: a field with ctype "string" and a size maps to VariableSizeString
\* when the size is Variable (with or without a max) and to
\* FixedSizeString<typenum::UN> when it is Fixed(N), whatever the enum
\* registry holds; without options that type expression is the whole result.
C9_StringFieldContainers ==
    (Returned("get_rust_field_type") /\ IsStringWithSize(call.fld)) =>
        LET size == call.fld.maybe_size[1]
        IN  /\ size.kind = "Variable" => ret[1].type_expr = <<"VariableSizeString">>
            /\ size.kind = "Fixed" =>
                   ret[1].type_expr = <<"FixedSizeString<typenum::U">> \o size.arg \o <<">">>
            /\ call.fld.maybe_options = <<>> => ret[1].comment = <<>>

\* A Fixed(16) string field has been mapped under a registry that has the
\* key "string".
C9_Witness ==
    /\ Returned("get_rust_field_type")
    /\ call.fld.ctype = StrString
    /\ call.fld.maybe_size = <<[kind |-> "Fixed", arg |-> <<"16">>]>>
    /\ StrString \in DOMAIN call.enum_containers
    /\ ret[1].type_expr = <<"FixedSizeString<typenum::U", "16", ">">>

\* C10: a field with no size whose mapped base type name T is a key of the
\* enum registry with container W maps to SizedEnum<T, W>; when T is not a
\* key the field maps to the bare name T.
C10_SizedEnumOrPassThrough ==
    (Returned("get_rust_field_type") /\ call.fld.maybe_size = <<>>) =>
        LET T == RustBaseType(call.fld.ctype)
            reg == call.enum_containers
        IN  IF T \in DOMAIN reg
            THEN ret[1].type_expr = <<"SizedEnum<">> \o T \o <<", ">> \o reg[T] \o <<">">>
            ELSE ret[1].type_expr = T

\* The field of type vl_api_sw_t has been mapped under a registry that
\* gives the enum Sw the container u32.
C10_Witness ==
    /\ Returned("get_rust_field_type")
    /\ call.fld.ctype = VlApi \o <<"s", "w">> \o SufT
    /\ call.fld.maybe_size = <<>>
    /\ call.fld.maybe_options = <<>>
    /\ DOMAIN call.enum_containers = {<<"S", "w">>}
    /\ call.enum_containers[<<"S", "w">>] = U32
    /\ ret[1].type_expr = <<"SizedEnum<", "S", "w", ", ", "u", "3", "2", ">">>

IsArrayField(f) == f.ctype # StrString /\ f.maybe_size # <<>>

\* the container form around the element type elem for a size descriptor
ArrayOf(size, elem) ==
    IF size.kind = "Variable"
    THEN <<"VariableSizeArray<">> \o elem \o <<">">>
    ELSE <<"FixedSizeArray<">> \o elem \o <<", typenum::U">> \o size.arg \o <<">">>

\* C11 as stated: a non-string field with a size maps to
\* VariableSizeArray<T> or FixedSizeArray<T, typenum::UN> with T the bare
\* mapped base type name, also when T is a key of the enum registry.
C11_SizedArraysWrapBareType ==
    (Returned("get_rust_field_type") /\ IsArrayField(call.fld)) =>
        ret[1].type_expr = ArrayOf(call.fld.maybe_size[1], RustBaseType(call.fld.ctype))

\* C11 as amended: a non-string field with a size maps to
\* VariableSizeArray<E> or FixedSizeArray<E, typenum::UN>, where E is the
\* bare mapped base type name T when T is not a key of the enum registry
\* and SizedEnum<T, W> when the registry gives T the container W.
C11_SizedArraysWrapMappedType ==
    (Returned("get_rust_field_type") /\ IsArrayField(call.fld)) =>
        LET T == RustBaseType(call.fld.ctype)
            reg == call.enum_containers
            E == IF T \in DOMAIN reg
                 THEN <<"SizedEnum<">> \o T \o <<", ">> \o reg[T] \o <<">">>
                 ELSE T
        IN  ret[1].type_expr = ArrayOf(call.fld.maybe_size[1], E)

\* A Fixed(16) array of vl_api_sw_t has been mapped under a registry that
\* gives the enum Sw the container u8.
C11_Witness ==
    /\ Returned("get_rust_field_type")
    /\ call.fld.ctype = VlApi \o <<"s", "w">> \o SufT
    /\ call.fld.maybe_size = <<[kind |-> "Fixed", arg |-> <<"16">>]>>
    /\ DOMAIN call.enum_containers = {<<"S", "w">>}
    /\ call.enum_containers[<<"S", "w">>] = U8
    /\ ret[1].type_expr = <<"FixedSizeArray<", "SizedEnum<", "S", "w", ", ", "u", "8",
                            ">", ", typenum::U", "16", ">">>

\* C12: for a field with no size and no options whose mapped type is not a
\* key of the enum registry, get_rust_field_type returns exactly what
\* get_type returns for the field's ctype: the camel-cased name for a
\* vl_api_*_t type, "String" for "string", the token itself otherwise.
C12_PlainFieldEqualsGetType ==
    ( /\ Returned("get_rust_field_type")
      /\ call.fld.maybe_size = <<>>
      /\ call.fld.maybe_options = <<>>
      /\ RustBaseType(call.fld.ctype) \notin DOMAIN call.enum_containers
      /\ get_type(call.fld.ctype) \notin DOMAIN call.enum_containers )
    => /\ ret[1].type_expr = get_type(call.fld.ctype)
       /\ ret[1].comment = <<>>

IsVlApiType(a) ==
    StartsWith(a, VlApi) /\ EndsWith(a, SufT) /\ Len(a) >= Len(VlApi) + Len(SufT)

\* C13: camelize (convert_case's UpperCamel) returns the string
\* camelize_ident returns for every identifier of ASCII letters of either
\* case and underscores, and so the name get_type gives a vl_api_*_t type is
\* the name get_rust_type_from_ctype gives it under an empty registry.
C13_CamelizersAgree ==
    /\ Returned("camelize") => ret[1] = camelize_ident(call.arg)
    /\ (Returned("get_type") /\ IsVlApiType(call.arg)) =>
           ret[1] = get_rust_type_from_ctype(<<>>, call.arg)

WithoutOptions(f) == [f EXCEPT !.maybe_options = <<>>]

\* C14: an options annotation never changes the mapped type: the result
\* for a field is the type expression returned for the same field without
\* options, whatever is_last is, followed by nothing when the field has no
\* options and by the one comment of the field and is_last when it has.
C14_OptionsLeaveTypeAlone ==
    Returned("get_rust_field_type") =>
        LET reg == call.enum_containers
        IN  /\ \A last \in BOOLEAN :
                  /\ get_rust_field_type(reg, WithoutOptions(call.fld), last)
                       = [type_expr |-> ret[1].type_expr, comment |-> <<>>]
                  /\ get_rust_field_type(reg, call.fld, last).type_expr = ret[1].type_expr
            /\ call.fld.maybe_options = <<>> => ret[1].comment = <<>>
            /\ call.fld.maybe_options # <<>> =>
                   ret[1].comment = <<[fld |-> call.fld, is_last |-> call.is_last]>>

\* A Variable array field of type vl_api_sw_t that carries options has been
\* mapped as the last field: its type is the array, then the comment.
C14_Witness ==
    /\ Returned("get_rust_field_type")
    /\ call.fld.ctype = VlApi \o <<"s", "w">> \o SufT
    /\ call.fld.maybe_size = <<[kind |-> "Variable", arg |-> <<>>]>>
    /\ call.fld.maybe_options # <<>>
    /\ call.is_last
    /\ call.enum_containers = <<>>
    /\ ret[1].type_expr = <<"VariableSizeArray<", "S", "w", ">">>
    /\ ret[1].comment # <<>>

-----------------------------------------------------------------------------
(* Further properties of the driver, checked under Spec.                    *)

\* C16: print_message_names changes the diagnostics only: a run of
\* parse_type_tree with it set goes on from the listing of lib.rs 56-64 to
\* the same passes, emitter calls and end as the run without it, which
\* never ends at those lines; so no run ends there, whatever the crc
\* strings of the corpus are.
C16_PrintNamesOnlyPrints ==
    (entry_fn = "parse_type_tree" /\ opts.print_message_names /\ pc = "failed")
    => failure[1].at # "loaded"

\* C17: in the create_package pass a create_dir_all that fails ends the run
\* there: generate_lib_file, create_cargo_toml and copy_file_with_fixup are
\* not called and no gen_code call of the package pass is made; they are
\* made only once all four directories exist.
C17_DirFailureAborts ==
    entry_fn = "parse_type_tree" =>
      /\ (pc = "failed" /\ failure[1].what = "panic_create_dir") =>
             /\ pkg.dirs < PackageDirs
             /\ ~pkg.scaffold
             /\ PassNames("package") = <<>>
      /\ pkg.scaffold => pkg.dirs = PackageDirs
      /\ PassNames("package") # <<>> => pkg.scaffold

\* The third create_dir_all of a run that loaded two files has failed.
C17_Witness ==
    /\ entry_fn = "parse_type_tree"
    /\ opts.create_package
    /\ pc = "failed"
    /\ failure[1].what = "panic_create_dir"
    /\ pkg = [dirs |-> 2, scaffold |-> FALSE]
    /\ Len(api_files) = 2

\* the run of parse_type_tree is over: it returned, or it aborted
RunOver == entry_fn = "parse_type_tree" /\ pc \in {"done", "failed"}

\* C18: every run of parse_type_tree prints the line "Loaded N API
\* definition files" with N the number of files of the tree that parse,
\* also for a tree whose root or one of whose entries cannot be read.
C18_SummaryAlwaysReported ==
    RunOver =>
        \E i \in 1..Len(out) :
            /\ out[i].line = "loaded"
            /\ out[i].n = Cardinality(PathsOfKind({"good"}))

-----------------------------------------------------------------------------
(* Further properties of the loader, checked under SpecTree.                *)

\* the paths of all entries below the directory t at path prefix, in the
\* order of the walk: an entry, then what is below it
RECURSIVE WalkOrder(_, _)
WalkOrder(t, prefix) ==
    Concat([i \in 1..Len(t.ch) |->
               LET p == Append(prefix, i)
               IN  <<p>> \o (IF t.ch[i].k = "dir" THEN WalkOrder(t.ch[i], p) ELSE <<>>)])

\* the entries of the given kinds the walk has gone past, in walk order
SeenInOrder(ks) ==
    SelectSeq(WalkOrder(tree, <<>>), LAMBDA p : EntryAt(tree, p).k \in ks /\ Visited(p))

-----------------------------------------------------------------------------
(* Properties of the transport clients, checked under SpecClient.           *)

\* C20: the context counter of a Client starts at 1 and get_next_context
\* returns a value one greater on each call, so the contexts stamped on
\* the messages one client sends are nonzero and pairwise distinct for any
\* number of sends on the u32 counter, and a reply that echoes its
\* request's context never has context 0.
C20_ContextsNonzeroAndDistinct ==
    client.kind \in ClientKinds =>
      /\ client.bursts = 0 => \A i \in 1..Len(sent) : sent[i].f.context = U32Of(0, i)
      /\ \A i \in 1..Len(sent) : sent[i].f.context # U32Of(0, 0)
      /\ \A i, j \in 1..Len(sent) : i < j => sent[i].f.context # sent[j].f.context
      /\ \A i \in 1..Len(replies) : replies[i] # U32Of(0, 0)

\* C23: in afunix the Client's client_index is the field index of the
\* sockclnt_create reply read by connect and no call changes it; every
\* message written by send whose type has a client_index field carries that
\* value, and carries in context the value the counter held when send was
\* called, which the call moved the counter past.
C23_SendStampsConnectIndex ==
    [][client.kind = "afunix" =>
         /\ client.client_index = connect_reply[1].f.index
         /\ client'.client_index = client.client_index
         /\ connect_reply' = connect_reply
         /\ Len(sent') = Len(sent) + 1 =>
                LET m == sent'[Len(sent')]
                IN  /\ "client_index" \in DOMAIN m.f =>
                           m.f.client_index = connect_reply[1].f.index
                    /\ m.f.context = client.context_id
                    /\ client'.context_id # client.context_id
                    /\ sent # <<>> => m.f.context # sent[Len(sent)].f.context]_vars

\* an afunix Client whose reply at connect had index and client_index apart
\* has written a request and a message without client_index field
C23_Witness ==
    /\ client.kind = "afunix"
    /\ connect_reply[1].f.index # connect_reply[1].f.client_index
    /\ connect_reply[1].f.index # U32Of(0, 0)
    /\ \E i, j \in 1..Len(sent) :
           /\ sent[i].type = "RawControlPing"
           /\ sent[j].type = "MsgSockClntCreate"

-----------------------------------------------------------------------------
(* Properties of the sort on short and on ordered vectors, checked under    *)
(* Spec.                                                                    *)

\* the pass of parse_type_tree named p was entered with no types file loaded
PassWithoutTypes(p) ==
    /\ entry_fn = "parse_type_tree"
    /\ TypesOf(api_files) = <<>>
    /\ IF p = "binding" THEN BindingOver
       ELSE /\ opts.create_package
            /\ pkg.scaffold
            /\ pc \in {"done", "failed"}

\* C24: with create_binding or create_package set and no types file loaded,
\* merge_sort(arr, 0, 0) returns the empty vector and the pass emits every
\* loaded file once in load order; called on its own on the empty vector,
\* merge_sort returns it.
C24_EmptySortReturns ==
    /\ \A p \in {"binding", "package"} :
           PassWithoutTypes(p) => PassNames(p) = NamesOf(api_files)
    /\ (entry_fn = "merge_sort" /\ sort_in = <<>> /\ pc # "start") =>
           pc = "returned" /\ sort_out = <<>>

\* the last merge_sort call was made on a vector of at least one element
\* and is over
SortCalled ==
    /\ Len(sort_in) >= 1
    /\ entry_fn = "merge_sort" => pc # "start"

\* C27: merge_sort(arr, 0, len) with len >= 1 returns a permutation of its
\* input: the output has the length of the input and every element of the
\* input stands at exactly one position of the output; and merge leaves
\* the elements outside [left, right) where they are.
C27_SortReturnsPermutation ==
    SortCalled =>
      /\ Len(sort_out) = Len(sort_in)
      /\ \A i \in 1..Len(sort_in) :
             Cardinality({j \in 1..Len(sort_out) : sort_out[j] = sort_in[i]}) = 1
      /\ \A left \in 0..Len(sort_in), mid \in 0..Len(sort_in), right \in 0..Len(sort_in) :
             (left < mid /\ mid < right) =>
                 \A k \in 1..Len(sort_in) :
                     (k <= left \/ k > right) =>
                         merge(sort_in, left, mid, right)[k] = sort_in[k]

\* merge_sort has returned a vector of four files that it had to reorder.
C27_Witness ==
    /\ entry_fn = "merge_sort"
    /\ pc = "returned"
    /\ Len(sort_in) = 4
    /\ sort_out # sort_in
    /\ sort_out[1] = sort_in[4]

\* C28: applying merge_sort to its own output returns that output
\* unchanged: an ordered vector of types files is not reordered.
C28_SortIdempotent ==
    SortCalled => SortCollection(sort_out) = [returns |-> TRUE, arr |-> sort_out]

-----------------------------------------------------------------------------
(* A further property of get_ident, checked under SpecMapper.               *)

\* C29: get_ident never returns a reserved token: for every name the result
\* differs from "type" and from "match".
C29_GetIdentAvoidsReserved ==
    Returned("get_ident") => ret[1] \notin {StrType, StrMatch}

-----------------------------------------------------------------------------
(* Termination of the loader, checked under SpecLinks.                      *)

\* every entry of the tree can be read: none makes read_dir, the DirEntry,
\* metadata or to_str fail by itself
AllEntriesRead ==
    /\ tree.k = "dir"
    /\ PathsOfKind({"broken", "udir", "nudir", "nonutf8"}) = {}

\* C26: parse_api_tree terminates on every directory tree: the walk of a
\* tree whose entries can all be read descends into each directory a
\* finite number of times and returns.
C26_WalkReturns ==
    (entry_fn = "parse_api_tree" /\ AllEntriesRead) ~> (pc = "returned")

-----------------------------------------------------------------------------
(* Properties of the hand-written messages, checked under SpecMsg.          *)

\* the messages a and b are of the same type and differ at most in field
SameExcept(a, b, field) ==
    /\ a.type = b.type
    /\ DOMAIN a.f = DOMAIN b.f
    /\ \A k \in DOMAIN a.f \ {field} : a.f[k] = b.f[k]

\* C22: on every hand-written message set_context writes the argument to
\* context and leaves every other field as it was; set_client_index does the
\* same for client_index on a type that has the field and leaves the whole
\* message as it was on a type without it; get_message_name_and_crc leaves
\* the message alone and returns the same text on every call.
C22_SettersTouchOneField ==
    \A i \in 1..Len(msg_log) :
        LET e == msg_log[i]
        IN  /\ e.fn = "set_context" =>
                   /\ SameExcept(e.before, e.after, "context")
                   /\ e.after.f.context = e.arg
            /\ e.fn = "set_client_index" =>
                   IF "client_index" \in DOMAIN e.before.f
                   THEN /\ SameExcept(e.before, e.after, "client_index")
                        /\ e.after.f.client_index = e.arg
                   ELSE e.after = e.before
            /\ e.fn = "get_message_name_and_crc" =>
                   /\ e.after = e.before
                   /\ \A j \in 1..Len(msg_log) :
                          msg_log[j].fn = e.fn => msg_log[j].name = e.name

\* a message without a client_index field went through both setters, each
\* with a value the message did not hold, and was asked its name
C22_Witness ==
    /\ msg_log # <<>>
    /\ msg.type \in {"RawCliInbandReply", "MsgSockClntCreate"}
    /\ \E i, j, k \in 1..Len(msg_log) :
           /\ msg_log[i].fn = "set_context"
           /\ msg_log[i].before.f.context # msg_log[i].arg
           /\ msg_log[j].fn = "set_client_index"
           /\ msg_log[j].arg # U32Of(0, 0)
           /\ msg_log[k].fn = "get_message_name_and_crc"

-----------------------------------------------------------------------------
(* Properties of read_object, checked under SpecRead.                       *)

\* the call of read_object has returned
ReadReturned == call.fn = "read_object" /\ ret # <<>>

\* C21: read_object::<T> returns Ok only when the id of T is resolved and
\* the frame it read starts with that id in two bytes, and the value is the
\* message of type T whose encoding follows the id in that frame; it
\* returns Err when the frame's id is another one; when the name of T is
\* not resolved it returns Err and the stream is as it was.
C21_ReadObjectChecksId ==
    ReadReturned =>
        LET r == ret[1]
            expected == call.resolver[get_message_name_and_crc(call.T)]
            frame == read_frame(call.stream, call.has_socket_header)
            id == frame.value[1] * 256 + frame.value[2]
        IN  /\ expected = <<>> => ~r.ok /\ r.rest = call.stream
            /\ r.ok =>
                   /\ expected # <<>>
                   /\ frame.ok
                   /\ Len(frame.value) >= 3
                   /\ id = expected[1]
                   /\ r.value[1].type = call.T
                   /\ EncodeMsg(r.value[1])
                          = Slice(frame.value, 3, 2 + Len(EncodeMsg(r.value[1])))
                   /\ r.rest = frame.rest
            /\ (expected # <<>> /\ frame.ok /\ Len(frame.value) >= 2
                    /\ id # expected[1]) => ~r.ok

\* a reply with a negative retval was read from a stream of two frames, and
\* the second frame is left
C21_Witness ==
    /\ ReadReturned
    /\ call.has_socket_header
    /\ ret[1].ok
    /\ ret[1].value[1].type = "RawControlPingReply"
    /\ ret[1].value[1].f.retval = -1
    /\ ret[1].value[1].f.context = U32Of(0, 7)
    /\ ret[1].rest = write_frame(<<1, 6, 0, 0, 0, 7>>, TRUE)

-----------------------------------------------------------------------------
(* Properties of a connected client, checked under SpecConn.                *)

\* C25: whenever send_rcv returned Ok on a client, whatever calls of send,
\* receive and send_rcv came before and however they ended, the reply it
\* returned carries the context that this call stamped on its request.
C25_SendRcvReturnsOwnReply ==
    \A i \in 1..Len(calls) :
        (calls[i].fn = "send_rcv" /\ calls[i].state = "ok") =>
            calls[i].reply[1].f.context = calls[i].request

-----------------------------------------------------------------------------
(* Properties of the receiver lock of shmem::non_blocking, checked under    *)
(* SpecLock.                                                                *)

\* the step wrote a request or took a message from the global queue
WritesOrDequeues ==
    \/ Len(sent') > Len(sent)
    \/ \E k \in 1..Len(inbox) : inbox' = SubSeq(inbox, k + 1, Len(inbox))

\* C30: at any time at most one send_rcv call of all tasks and Clients is
\* between taking the lock of the global receiver and the end of its
\* receive, and that call is the holder of the lock; while it is, every
\* step that writes a request or takes a message from the global queue is a
\* step of that call; and a call that has returned, with Ok or with Err,
\* does not hold the lock.
C30_OneSendRcvAtATime ==
    /\ [](\A t, u \in Tasks : (InWindow(t) /\ InWindow(u)) => t = u)
    /\ [](\A t \in Tasks : InWindow(t) <=> lock = t)
    /\ [][\A t \in Tasks :
              (InWindow(t) /\ WritesOrDequeues) => tasks'[t] # tasks[t]]_vars

\* one task waits for its reply with the lock held while the other task,
\* whose earlier call ended with Err, is back outside; an earlier call
\* ended with Ok
C30_Witness ==
    /\ tasks # <<>>
    /\ \E t, u \in Tasks :
           /\ tasks[t].pc = "sent"
           /\ lock = t
           /\ tasks[u].pc = "idle"
           /\ tasks[u].last = "err"
           /\ tasks[t].rounds = 2
           /\ tasks[t].last = "ok"

-----------------------------------------------------------------------------
(* Properties of vac_write_callback, checked under SpecQueue.               *)

\* C31: every call of vac_write_callback returns, whatever the VAC layer
\* delivered before and whether or not a send_rcv call is receiving: a call
\* that was entered has, some time later, put its message into the global
\* queue or dropped it, and is over.
C31_CallbackReturns == (vpp.callback # <<>>) ~> (vpp.callback = <<>>)

-----------------------------------------------------------------------------
(* Properties of the request/reply helpers, checked under SpecReq.          *)

\* the least of a non-empty set of numbers
Least(S) == CHOOSE x \in S : \A y \in S : x <= y

\* the helper of the call has returned, and the transport knew its names
ReqReturned(fns) ==
    /\ ret # <<>>
    /\ call.fn \in fns
    /\ ret[1].outcome \in {"ok", "err", "panic"}
    /\ get_msg_index(call.t, get_message_name_and_crc(call.m.type)) # <<>>
    /\ get_msg_index(call.t, get_message_name_and_crc(call.TR)) # <<>>

\* C32: after a complete write send_recv_one and send_recv_msg read up to the
\* first message that carries the reply type's id (or the first read error)
\* and no further; messages of another id before it are passed over; the
\* call succeeds exactly when that message decodes, and then returns its
\* decode, so never the decode of a message of another id.  After a short
\* write the call fails and has read nothing.
C32_ReturnsFirstMatchingReply ==
    ReqReturned({"send_recv_one", "send_recv_msg"}) =>
        LET r == ret[1]
            t == call.t
            reply_id == get_msg_index(t, get_message_name_and_crc(call.TR))[1]
            k == Least({i \in 1..(Len(t.incoming) + 1) :
                           \/ ~read_one_msg_id_and_msg(t, i).ok
                           \/ read_one_msg_id_and_msg(t, i).msg_id = reply_id})
            first == read_one_msg_id_and_msg(t, k)
        IN  /\ t.write = "short" => (r.outcome # "ok" /\ r.reads = 0)
            /\ t.write = "complete" =>
                   /\ r.reads = k
                   /\ r.outcome = "ok" <=> (first.ok /\ DecodeMsg(call.TR, first.data) # <<>>)
                   /\ r.outcome = "ok" =>
                          /\ first.msg_id = reply_id
                          /\ r.value = DecodeMsg(call.TR, first.data)

\* send_recv_one returned the decode of the third message, after a message
\* of another id and one of the control ping's id
C32_Witness ==
    /\ ReqReturned({"send_recv_one"})
    /\ call.t.write = "complete"
    /\ ret[1].outcome = "ok"
    /\ ret[1].reads = 3
    /\ call.t.incoming[1].msg_id = 300
    /\ call.t.incoming[2].msg_id # call.t.incoming[3].msg_id

\* the transport also knew the names of the control ping and of its reply
ReqReturnedMany(fns) ==
    /\ ReqReturned(fns)
    /\ get_msg_index(call.t, "control_ping_51077d14") # <<>>
    /\ get_msg_index(call.t, "control_ping_reply_f6b0b8ca") # <<>>

\* C33: send_recv_many and send_bulk_msg, when both writes go through, have
\* written the request and then the control ping, these two buffers in this
\* order; when the call succeeds it has read up to the first
\* control_ping_reply and no further, and returns the decodes of exactly the
\* messages of the reply id read before it, in the order of arrival, the
\* messages of other ids left out; and it does succeed when a
\* control_ping_reply arrives with no read error and no undecodable message
\* of the reply id before it.
C33_CollectsUntilPingReply ==
    (ReqReturnedMany({"send_recv_many", "send_bulk_msg"}) /\ call.t.write = "complete") =>
        LET r == ret[1]
            t == call.t
            request_id == get_msg_index(t, get_message_name_and_crc(call.m.type))[1]
            reply_id == get_msg_index(t, get_message_name_and_crc(call.TR))[1]
            ping_id == get_msg_index(t, "control_ping_51077d14")[1]
            ping_reply_id == get_msg_index(t, "control_ping_reply_f6b0b8ca")[1]
            stops == {i \in 1..Len(t.incoming) :
                          t.incoming[i].ok /\ t.incoming[i].msg_id = ping_reply_id}
            before(k) == SubSeq(t.incoming, 1, k - 1)
            matching(k) == SelectSeq(before(k), LAMBDA x : x.ok /\ x.msg_id = reply_id)
            clean(k) == \A i \in 1..(k - 1) :
                            /\ t.incoming[i].ok
                            /\ t.incoming[i].msg_id = reply_id
                                   => DecodeMsg(call.TR, t.incoming[i].data) # <<>>
        IN  /\ r.writes = <<BE16(request_id) \o EncodeMsg(call.m),
                            BE16(ping_id) \o EncodeMsg(ControlPing(t))>>
            /\ r.outcome = "ok" =>
                   /\ stops # {}
                   /\ r.reads = Least(stops)
                   /\ r.value = [i \in 1..Len(matching(Least(stops))) |->
                                     DecodeMsg(call.TR, matching(Least(stops))[i].data)[1]]
            /\ (stops # {} /\ clean(Least(stops))) => r.outcome = "ok"

\* send_recv_many returned two replies, in the order they came, that arrived
\* before the control_ping_reply; the control ping itself was not the reply
\* type
C33_Witness ==
    /\ ReqReturnedMany({"send_recv_many"})
    /\ call.t.write = "complete"
    /\ call.TR = "RawControlPing"
    /\ ret[1].outcome = "ok"
    /\ ret[1].reads = 3
    /\ Len(ret[1].value) = 2
    /\ ret[1].value[1] # ret[1].value[2]
    /\ Len(ret[1].writes) = 2

\* C34: send_recv_one and send_recv_many end every call with a value, Ok or
\* Err, and never with a panic, whatever names the transport knows, however
\* its writes and reads end and whatever bytes it returns.
C34_FailuresAreErr ==
    (ret # <<>> /\ call.fn \in {"send_recv_one", "send_recv_many"}) =>
        ret[1].outcome \in {"ok", "err"}

-----------------------------------------------------------------------------
(* Properties of write_frame and read_frame, checked under SpecFrame.       *)

\* C35: whatever non-empty payloads were written with a socket header, the
\* read_frame calls made so far returned them, Ok and byte for byte, in the
\* order they were written, and when as many frames were read as were
\* written nothing is left between writer and reader.
C35_FramesRoundTrip ==
    /\ \A i \in 1..Len(replies) : replies[i].ok /\ replies[i].value = sent[i]
    /\ (sent # <<>> /\ Len(replies) = Len(sent)) => inbox = <<>>

-----------------------------------------------------------------------------
(* Properties of get_message_index, checked under SpecIndex.                *)

\* what a connected Client answers for the name, given the table of the
\* reply its connect read: the index of the entry that lists the name (of
\* the last one, if several do), else 15 and 16 for sockclnt_create and
\* sockclnt_create_reply, else an error
IndexOfTable(table, name) ==
    LET listed == {i \in 1..Len(table) : table[i].name = name}
        last == CHOOSE i \in listed : \A j \in listed : j <= i
    IN  IF listed # {} THEN [ok |-> TRUE, value |-> table[last].index]
        ELSE IF name = "sockclnt_create_455fb9c4" THEN [ok |-> TRUE, value |-> 15]
        ELSE IF name = "sockclnt_create_reply_35166268" THEN [ok |-> TRUE, value |-> 16]
        ELSE [ok |-> FALSE, value |-> 0]

\* C36: from the moment connect returned, and after any number of sends,
\* get_message_index answers every name with the index the server's table
\* lists for it, answers sockclnt_create and sockclnt_create_reply with 15
\* and 16 when the table does not list them, and answers every other name
\* with an error; the answers the calls gave are these same values.
C36_IndexFromTable ==
    /\ \A name \in AskedNames :
           get_message_index(client, name)
               = IndexOfTable(connect_reply[1].f.message_table, name)
    /\ ret # <<>> =>
           ret[1].result = IndexOfTable(connect_reply[1].f.message_table, ret[1].name)

\* after a send, a call for sockclnt_create returned the index 17 the table
\* lists for it, the table listing the control ping as well
C36_Witness ==
    /\ ret # <<>>
    /\ sent # <<>>
    /\ ret[1].name = "sockclnt_create_455fb9c4"
    /\ ret[1].result = [ok |-> TRUE, value |-> 17]
    /\ \E i \in 1..Len(connect_reply[1].f.message_table) :
           connect_reply[1].f.message_table[i].name = "control_ping_51077d14"

=============================================================================
